---- MODULE Spec2Model ----
(***************************************************************************)
(* Model of the file-record subsystem of koishi-plugin-mcl-grouptool       *)
(* (class FileRecordService and the helpers of utils.ts it calls).         *)
(*                                                                         *)
(* The service is single-threaded and event-driven: every handler runs     *)
(* synchronously up to its next `await`.  Each asynchronous call is        *)
(* modelled by two steps where the continuation reads shared memory: the   *)
(* step in which the I/O takes effect on the disk, and the step in which   *)
(* the continuation of the handler runs.  Handlers of different events     *)
(* interleave at those points only.                                        *)
(***************************************************************************)
EXTENDS Integers, Sequences, FiniteSets, TLC

(***************************************************************************)
(* Bounds of the model.                                                    *)
(***************************************************************************)
NumUploads == 2    \* upload events handled in one behaviour
NumMessages == 1   \* chat-message events handled in one behaviour
MaxTime == 4       \* the clock stops advancing here (milliseconds)
NumLegacyMessages == 2   \* chat-message events the timer-driven service handles
NumConversationUploads == 1    \* upload events the per-user service handles
NumConversationMessages == 2   \* chat-message events the per-user service handles
ConversationMaxTime == 1       \* the clock of the per-user service stops here
NumReplyMessages == 3    \* chat-message events the launcher-file service handles
MaxSeconds == 6          \* the clock of the launcher-file service stops here (seconds)
MaxHours == 27           \* the clock of the curfew service stops here (hours)
MaxStack == 3            \* frames of scheduleNextEvent the call stack has room for
MaxMuteCalls == 2        \* calls of setGroupMute(groupId, true) in progress at a time
NumKeywordCalls == 3     \* keyword commands handled in one behaviour

(***************************************************************************)
(* Program constants.                                                      *)
(***************************************************************************)
MaxFileSize == 16777216          \* 16 * 1024 * 1024

FILE_RECORD_GROUPS == {"666546887", "978054335", "958853931"}
ALLOWED_EXTENSIONS == {".zip", ".log", ".txt", ".json", ".gz", ".xz"}
AMBIGUOUS_MESSAGE_PREFIX == "[交叉对话] "

\* Constants of the timer-driven service, in units of five minutes.
UPLOADER_MESSAGE_WINDOW == 1     \* 5 * 60 * 1000 ms
WHITELIST_REPLY_TIMEOUT == 3     \* 15 * 60 * 1000 ms
RECORDING_DURATION == 288        \* 24 * 60 * 60 * 1000 ms
CONVERSATION_TIMEOUT == 1        \* 5 * 60 * 1000 ms (services/FileRecordService.ts)

(***************************************************************************)
(* Small input sets.                                                       *)
(***************************************************************************)
Channels == {"666546887", "978054335", "100000001"}
Users == {"u1", "u2", "p1"}
Uploaders == {"u1", "u2"}
NoUser == "-"

\* A file name is its root, the "(n)" suffixes that follow the root, and
\* its extension: "a(1).zip" is [root |-> "a", sfx |-> <<1>>, ext |-> ".zip"].
Name(root, sfx, ext) == [root |-> root, sfx |-> sfx, ext |-> ext]
NoRecord == Name("", <<>>, "")                \* no property / null
Undefined == Name("undefined", <<>>, "")      \* the JavaScript value undefined

\* The uploads offered to the service: [name, size].
FileInputs ==
  { [name |-> Name("a", <<>>, ".zip"), size |-> 100],
    [name |-> Name("a", <<>>, ".zip"), size |-> 200],
    [name |-> Name("a", <<>>, ".exe"), size |-> 100],
    [name |-> Name("a", <<>>, ".zip"), size |-> MaxFileSize + 1] }

UploadSlots == 1..NumUploads
MessageSlots == 1..NumMessages

(***************************************************************************)
(* Configuration (index.ts, Config).  The whitelist is a list whose        *)
(* entries are bare id strings (whitelist?: string[]) or objects           *)
(* ({ userId, nickname }); an entry records which of the two it is.        *)
(***************************************************************************)
StringEntry(id) == [shape |-> "string", userId |-> id]
ObjectEntry(id) == [shape |-> "object", userId |-> id]

\* recordTimeout and conversationTimeout are compared with differences of
\* Date.now() readings, which are milliseconds.
Configs ==
  { [whitelist |-> {entry}, additionalGroups |-> {},
     recordTimeout |-> 1, conversationTimeout |-> 3] :
      entry \in {StringEntry("p1"), ObjectEntry("p1")} }

VARIABLES
  config,       \* the plugin configuration
  now,          \* Date.now()
  fileIndex,    \* this.fileIndex: fileKey -> recordId
  activeFiles,  \* this.activeFiles: channelId -> userId -> { recordId, timestamp }
  recordFiles,  \* the record files <recordId>.json on disk: recordId -> record
  assetFiles,   \* the downloaded files on disk (artifacts and images)
  stateFile,    \* logs_state.json on disk
  loadStatePending,  \* the loadState() the constructor started has not resumed
  activeFilesKeys,   \* the rooms that are keys of this.activeFiles
  uploads,      \* the handlers of the upload events, by slot
  messages      \* the handlers of the message events, by slot

\* The state of the timer-driven FileRecordService (the variant that keeps
\* activeRecordings, the whitelist message cache and the two timers).
VARIABLES
  activeRecordings,        \* the keys of this.activeRecordings
  recordings,              \* the recording objects, by record name
  channelActiveSet,        \* this.channelActiveFiles.get(room), in insertion order
  whitelistMessageCache,   \* this.whitelistMessageCache, in insertion order
  recentUploaderMessages,  \* this.recentUploaderMessages: record name -> time
  legacyRecords,           \* the record files of FileManager: record name -> messages
  timers,                  \* the timers set and neither fired nor cleared
  timerSeq,                \* the number of timers created so far
  legacyUpload,            \* the handler of the upload event
  legacyMessages           \* the handlers of the message events, by slot

\* The state of the FileRecordService of services/FileRecordService.ts (the
\* variant that keeps one active file per user and a table of the
\* conversations of each room).
VARIABLES
  conversationIndex,     \* this.fileIndex: fileKey -> recordId
  userActiveFile,        \* this.userActiveFile: userId -> recordId
  channelConversations,  \* this.channelConversations: room -> entries, in insertion order
  conversationRecords,   \* the record files of FileManager: recordId -> record
  conversationUploads,   \* the handlers of the upload events, by slot
  conversationMessages   \* the handlers of the message events, by slot

\* A call of _getTargetFromReplyOrMention taken on its own.
VARIABLES
  targetCall   \* the session handed to the function, and what it returned

serviceVars == <<fileIndex, activeFiles, recordFiles, assetFiles, stateFile,
                 uploads, messages, loadStatePending, activeFilesKeys>>

legacyVars == <<activeRecordings, recordings, channelActiveSet,
                whitelistMessageCache, recentUploaderMessages, legacyRecords,
                timers, timerSeq, legacyUpload, legacyMessages>>

conversationVars == <<conversationIndex, userActiveFile, channelConversations,
                      conversationRecords,
                      conversationUploads, conversationMessages>>

\* FileReplyService (src/src/services/FileReplyService.ts) and the message
\* listener in front of it.
VARIABLES
  preventDup,     \* config.preventDup
  pendingNudge,   \* this.pending: room -> the timer of the nudge, or none
  nudgeTimers,    \* the timers of setTimeout that are neither cleared nor fired
  nudgeSends,     \* the timer callbacks waiting for their session.send
  nudgeSent,      \* the timers whose nudge has been handed to session.send
  nudgeSeq,       \* the number of timers set so far
  replyMessages   \* the handlers of the message events, by slot

replyVars == <<preventDup, pendingNudge, nudgeTimers, nudgeSends, nudgeSent,
               nudgeSeq, replyMessages>>

\* CurfewService (src/src/services/KeywordReplyService.ts, lines 280-520).
VARIABLES
  curfewTime,        \* config.curfewTime, as the two numbers the pattern captures
  mainScheduler,     \* this.mainScheduler: the id of a timeout, or none
  mainTimers,        \* the timeouts that are neither cleared nor fired
  curfewCheckTimer,  \* this.curfewCheckTimer: the id of an interval, or none
  checkIntervals,    \* the intervals that are running
  curfewSeq,         \* the number of timeouts and intervals set so far
  isCurfewMuted,     \* this.isCurfewMuted of the target groups
  muteCalls,         \* the calls of setGroupMute(groupId, true) in progress
  curfewCall         \* the synchronous call chain of the scheduler

curfewVars == <<curfewTime, mainScheduler, mainTimers, curfewCheckTimer,
                checkIntervals, curfewSeq, isCurfewMuted, muteCalls, curfewCall>>

\* The keyword lists of KeywordReplyService
\* (src/src/services/KeywordReplyService.ts) and of ForwardingService
\* (src/unnamed/part_011).
VARIABLES
  keywords,       \* this.keywords: the keyword objects, in list order
  keywordSeq,     \* the number of keyword objects made so far
  fwdKeywords,    \* this.fwdKeywords: the texts, in list order
  keywordCalls    \* the command handlers, by slot

keywordVars == <<keywords, keywordSeq, fwdKeywords, keywordCalls>>

collaboratorVars == <<replyVars, curfewVars, keywordVars>>

callVars == <<targetCall, collaboratorVars>>

\* what a step of FileReplyService leaves alone
replyFrame == <<config, serviceVars, legacyVars, conversationVars, targetCall,
                curfewVars, keywordVars>>

\* what a step of CurfewService leaves alone
curfewFrame == <<config, serviceVars, legacyVars, conversationVars, targetCall,
                 replyVars, keywordVars>>

\* what a step of the keyword commands leaves alone
keywordFrame == <<config, now, serviceVars, legacyVars, conversationVars, targetCall,
                  replyVars, curfewVars>>

vars == <<config, now, fileIndex, activeFiles, recordFiles, assetFiles,
          stateFile, uploads, messages, loadStatePending, activeFilesKeys,
          legacyVars, conversationVars, callVars>>

\* The elements of a message: text, a mention of a participant, and the
\* mention of everybody, which is an 'at' element without an id.
TextElement == [type |-> "text", id |-> NoUser]
At(id) == [type |-> "at", id |-> id]
AtAll == At(NoUser)
NoElement == [type |-> "undefined", id |-> NoUser]

\* session.event.message.quote: absent, or the quoted message, whose author
\* may be missing.
NoQuote == [present |-> FALSE, user |-> NoUser]
Quote(user) == [present |-> TRUE, user |-> user]

(***************************************************************************)
(* FileReplyService: values and the state after construction.              *)
(***************************************************************************)
NoLauncher == "none"
MULTI_LAUNCHER_GROUP_ID == "958853931"
NUDGE_DELAY == 3     \* setTimeout(..., 3000), in seconds
NoNudge == 0         \* no timer

LAUNCHER_CONFIGS ==
  [hmcl |-> [groupId |-> "666546887",
             groups |-> {"633640264", "203232161", "201034984", "533529045",
                         "744304553", "282845310", "482624681", "991620626",
                         "657677715", "775084843"}],
   pcl |-> [groupId |-> "978054335", groups |-> {"1028074835"}],
   bakaxl |-> [groupId |-> MULTI_LAUNCHER_GROUP_ID,
               groups |-> {"480455628", "377521448", MULTI_LAUNCHER_GROUP_ID}]]

\* the rooms of the model: a user group of HMCL and the multi-launcher group
ReplyChannels == {"633640264", MULTI_LAUNCHER_GROUP_ID}
ReplySlots == 1..NumReplyMessages

\* what session.content holds: nothing, text without a group id, or text
\* that contains the main group id of a launcher
Contents == {"empty", "text", "groupId"}

Nudge(id, channelId, due) == [id |-> id, channelId |-> channelId, due |-> due]

IdleReplyMessage ==
  [pc |-> "idle", channelId |-> "", matched |-> NoLauncher, content |-> "empty",
   open |-> {}]

ReplyConstructed ==
  /\ preventDup = TRUE
  /\ pendingNudge = [c \in ReplyChannels |-> NoNudge]
  /\ nudgeTimers = {}
  /\ nudgeSends = {}
  /\ nudgeSent = {}
  /\ nudgeSeq = 0
  /\ replyMessages = [k \in ReplySlots |-> IdleReplyMessage]

(***************************************************************************)
(* CurfewService: values and the state with no curfew configured.          *)
(***************************************************************************)
HoursPerDay == 24
NoTimes == [start |-> -1, end |-> -1]
IdleCurfewCall == [pc |-> "idle", frames |-> <<>>]

\* config.curfewTime: from 23 to 1 o'clock, from 1 to 3 o'clock, and a time
\* that the pattern matches and the range check rejects
CurfewTimes == {<<23, 1>>, <<1, 3>>, <<25, 7>>}
MainTimer(id, action, due) == [id |-> id, action |-> action, due |-> due]

\* !this.config.curfewTime: the constructor returns at once
CurfewConstructed ==
  /\ curfewTime = <<>>
  /\ mainScheduler = NoNudge
  /\ mainTimers = {}
  /\ curfewCheckTimer = NoNudge
  /\ checkIntervals = {}
  /\ curfewSeq = 0
  /\ isCurfewMuted = FALSE
  /\ muteCalls = 0
  /\ curfewCall = IdleCurfewCall

(***************************************************************************)
(* The keyword lists: values and the state with no keyword.                *)
(***************************************************************************)
KeywordTexts == {"x", "y"}
KeywordSlots == 1..NumKeywordCalls

\* a keyword object: its text and whether its reply holds a local image
Keyword(id, text, image) == [id |-> id, text |-> text, image |-> image]

IdleKeywordCall == [pc |-> "idle", text |-> "", newText |-> "", id |-> 0, image |-> FALSE]

KeywordsConstructed ==
  /\ keywords = <<>>
  /\ keywordSeq = 0
  /\ fwdKeywords = <<>>
  /\ keywordCalls = [k \in KeywordSlots |-> IdleKeywordCall]

CollaboratorsConstructed == ReplyConstructed /\ CurfewConstructed /\ KeywordsConstructed

IdleTargetCall ==
  [pc |-> "idle", elements |-> <<>>, quote |-> NoQuote, result |-> NoUser]

(***************************************************************************)
(* Helpers of FileRecordService and utils.ts.                              *)
(***************************************************************************)
\* Array.prototype.includes compares with SameValueZero: an object entry is
\* never equal to the id string.
isUserWhitelisted(userId, cfg) ==
  \E e \in cfg.whitelist : e.shape = "string" /\ e.userId = userId

isFileRecordAllowed(channelId) ==
  channelId \in (FILE_RECORD_GROUPS \cup config.additionalGroups)

\* A check that lets every extension pass.
hasAnyExtension(fileName) == TRUE

hasAllowedExtension(fileName) == fileName.ext \in ALLOWED_EXTENSIONS

\* `${fileName}_${fileSize}`: the name ends with its extension and the size
\* is a run of digits, so the string determines both parts.
FileKey(fileName, fileSize) == <<fileName, fileSize>>

FileKeys == { FileKey(f.name, f.size) : f \in FileInputs }

\* `${name}(${count})${ext}` with { name, ext } = parse(originalFileName)
Disambiguated(originalFileName, count) ==
  Name(originalFileName.root, Append(originalFileName.sfx, count), originalFileName.ext)

fileExists(recordId) == recordId \in DOMAIN recordFiles

NoSession == [recordId |-> NoRecord, timestamp |-> 0]
ActiveSession(recordId, timestamp) == [recordId |-> recordId, timestamp |-> timestamp]

\* A registration that keeps the session the pair already has.
SetSessionKeepFirst(af, channelId, userId, recordId, timestamp) ==
  IF af[channelId][userId] # NoSession
  THEN af
  ELSE [af EXCEPT ![channelId][userId] = ActiveSession(recordId, timestamp)]

\* this.activeFiles[channelId][uploaderId] = { recordId, timestamp }
SetSession(af, channelId, userId, recordId, timestamp) ==
  [af EXCEPT ![channelId][userId] = ActiveSession(recordId, timestamp)]

\* delete this.activeFiles[channelId][uploaderId]
DeleteSession(af, channelId, userId) ==
  [af EXCEPT ![channelId][userId] = NoSession]

\* The value a read of this.fileIndex[fileKey] yields.
IndexLookup(fi, fileKey) == IF fi[fileKey] = NoRecord THEN Undefined ELSE fi[fileKey]

\* saveState(): the tables as they are when the file is written.  A room
\* whose table is empty is written too ("room": {}).
SavedState ==
  [fileIndex |-> fileIndex, activeFiles |-> activeFiles, channels |-> activeFilesKeys]

InitialRecord(recordId, uploaderId) ==
  [recordId |-> recordId, uploaderId |-> uploaderId, messages |-> <<>>]

\* fs.writeFile(path) / fs.unlink(path) on the directory of record files
WriteFile(files, recordId, data) ==
  [r \in (DOMAIN files) \cup {recordId} |-> IF r = recordId THEN data ELSE files[r]]
deleteFile(files, recordId) ==
  [r \in (DOMAIN files) \ {recordId} |-> files[r]]

(***************************************************************************)
(* Handlers.  A slot holds the local variables of one handler and the      *)
(* place (pc) where it is suspended.                                       *)
(***************************************************************************)
\* exists is the value of the condition
\*   this.fileIndex[fileKey] && await fileExists(...)
\* "undefined" when the index has no entry, else what fileExists returned.
IdleUpload ==
  [pc |-> "idle", channelId |-> "", userId |-> NoUser, fileName |-> NoRecord,
   fileSize |-> 0, now |-> 0, recordId |-> NoRecord, count |-> 0, exists |-> "undefined",
   pending |-> {}]

NoContent == [prefix |-> "", text |-> FALSE, image |-> "none", imageOf |-> NoRecord]

IdleMessage ==
  [pc |-> "idle", channelId |-> "", userId |-> NoUser, explicit |-> NoUser,
   image |-> "none", targets |-> <<>>, content |-> NoContent, now |-> 0,
   idx |-> 0, record |-> InitialRecord(NoRecord, NoUser), stateChanged |-> FALSE,
   written |-> <<>>, failed |-> <<>>]

(***************************************************************************)
(* The timer-driven FileRecordService: values and the state after          *)
(* construction.  A record name is the base of the uploaded file name,     *)
(* made unique on the disk: "a", "a(1)", "a(2)".                           *)
(***************************************************************************)
LegacyName(n) == IF n = 0 THEN Name("a", <<>>, "") ELSE Name("a", <<n>>, "")
LegacyNameSeq == <<LegacyName(0), LegacyName(1), LegacyName(2)>>
LegacyNames == {LegacyNameSeq[i] : i \in 1..Len(LegacyNameSeq)}
LegacyMessageSlots == 1..NumLegacyMessages

NoTimer == 0
NoTime == -1

\* A recording object (startTime and lastWhitelistReplyTime are written and
\* never read).
Recording(userId, timeout) ==
  [uploaderUserId |-> userId, timeout |-> timeout, whitelistTimeout |-> NoTimer]
NoRecording == Recording(NoUser, NoTimer)

\* setTimeout(() => this.endRecordingSession(fileName, channelId), delay)
Timer(id, kind, fileName, due) ==
  [id |-> id, kind |-> kind, fileName |-> fileName, due |-> due]

\* A record file of FileManager: its messages, if the file exists.
NoLegacyFile == [exists |-> FALSE, messages |-> <<>>]
LegacyFile(msgs) == [exists |-> TRUE, messages |-> msgs]

\* MessageRecord { content, userId }; id tells the chat messages apart and
\* blank says that the content is the empty string.  image is "none" for
\* the content of a chat message as it came (session.content).
MessageRecord(id, userId, blank) ==
  [id |-> id, userId |-> userId, blank |-> blank, image |-> "none"]

\* { content: `[图片] ${uniqueImgFileName}`, userId }
ImageRecord(id, userId) ==
  [id |-> id, userId |-> userId, blank |-> FALSE, image |-> "ok"]

\* An entry of the whitelist message cache, with its key.
CacheEntry(key, message, timestamp, relatedFiles) ==
  [key |-> key, message |-> message, timestamp |-> timestamp,
   relatedFiles |-> relatedFiles]

IdleLegacyUpload == [pc |-> "idle", userId |-> NoUser]

IdleLegacyMessage ==
  [pc |-> "idle", userId |-> NoUser, at |-> NoUser, blank |-> FALSE,
   image |-> "none", timestamp |-> NoTime, fileName |-> NoRecord, copy |-> NoLegacyFile,
   list |-> <<>>, idx |-> 0]

\* The handler has returned: its local variables are gone.
Returned(msg, pc) ==
  [msg EXCEPT !.pc = pc, !.timestamp = NoTime, !.copy = NoLegacyFile,
              !.list = <<>>, !.idx = 0]

\* new FileRecordService(ctx, config), before any event
LegacyConstructed ==
  /\ activeRecordings = {}
  /\ recordings = [n \in LegacyNames |-> NoRecording]
  /\ channelActiveSet = <<>>
  /\ whitelistMessageCache = <<>>
  /\ recentUploaderMessages = [n \in LegacyNames |-> NoTime]
  /\ legacyRecords = [n \in LegacyNames |-> NoLegacyFile]
  /\ timers = {}
  /\ timerSeq = 0
  /\ legacyUpload = IdleLegacyUpload
  /\ legacyMessages = [m \in LegacyMessageSlots |-> IdleLegacyMessage]


(***************************************************************************)
(* The FileRecordService that keeps one active file per user: values and   *)
(* the state after construction (loadState has found no state file).       *)
(***************************************************************************)
ConversationUploadSlots == 1..NumConversationUploads
ConversationMessageSlots == 1..NumConversationMessages

\* An entry of this.channelConversations.get(room)
Conversation(uploaderId, timestamp) == [uploaderId |-> uploaderId, timestamp |-> timestamp]

IdleConversationUpload ==
  [pc |-> "idle", channelId |-> "", userId |-> NoUser, fileName |-> NoRecord,
   fileSize |-> 0, infoOk |-> FALSE, recordId |-> NoRecord, count |-> 0]

IdleConversationMessage ==
  [pc |-> "idle", channelId |-> "", userId |-> NoUser, targets |-> <<>>,
   idx |-> 0, record |-> InitialRecord(NoRecord, NoUser)]

\* A handler has returned: its local variables are gone.
ConversationUploadReturned(pc) == [IdleConversationUpload EXCEPT !.pc = pc]
\* The handler of an upload has returned a recordId: the slot remembers the
\* room and the uploader of the event and the record.
ConversationUploadKept(up, pc) ==
  [IdleConversationUpload EXCEPT !.pc = pc, !.channelId = up.channelId,
                                 !.userId = up.userId, !.recordId = up.recordId]
ConversationMessageReturned(pc) == [IdleConversationMessage EXCEPT !.pc = pc]

ConversationConstructed ==
  /\ conversationIndex = [k \in FileKeys |-> NoRecord]
  /\ userActiveFile = [u \in Users |-> NoRecord]
  /\ channelConversations = [c \in Channels |-> <<>>]
  /\ conversationRecords = <<>>
  /\ conversationUploads = [h \in ConversationUploadSlots |-> IdleConversationUpload]
  /\ conversationMessages = [m \in ConversationMessageSlots |-> IdleConversationMessage]

MessageResolved == {"notAllowed", "noTarget", "noContent", "done", "threw"}

UploadResolved ==
  {"noInfo", "notAllowed", "rejected", "reused", "recorded", "rolledBack", "threw"}

Init ==
  /\ config \in Configs
  /\ targetCall = IdleTargetCall
  /\ CollaboratorsConstructed
  /\ now = 0
  /\ fileIndex = [k \in FileKeys |-> NoRecord]
  /\ activeFiles = [c \in Channels |-> [u \in Users |-> NoSession]]
  /\ recordFiles = <<>>
  /\ assetFiles = {}
  /\ stateFile = [fileIndex |-> [k \in FileKeys |-> NoRecord],
                  activeFiles |-> [c \in Channels |-> [u \in Users |-> NoSession]],
                  channels |-> {}]
  /\ loadStatePending = FALSE
  /\ activeFilesKeys = {}
  /\ uploads = [h \in UploadSlots |-> IdleUpload]
  /\ messages = [m \in MessageSlots |-> IdleMessage]
  /\ ConversationConstructed
  /\ LegacyConstructed

\* The clock advances between any two steps.
Tick ==
  /\ now < MaxTime
  /\ now' = now + 1
  /\ UNCHANGED <<loadStatePending, activeFilesKeys, legacyVars, conversationVars, callVars>>
  /\ UNCHANGED <<config, fileIndex, activeFiles, recordFiles, assetFiles,
                 stateFile, uploads, messages>>

(***************************************************************************)
(* handleFile and _processAndRecordFile.                                   *)
(***************************************************************************)
\* _createNewRecord up to its first await: let count = 1; recordId = name
StartCreateNewRecord(up) ==
  [up EXCEPT !.pc = "createCheck", !.recordId = up.fileName, !.count = 1]

\* handleFile, _extractFileInfo and _processAndRecordFile up to the first
\* await of _processAndRecordFile.
HandleFile(h, channelId, userId, file, infoOk) ==
  /\ uploads[h].pc = "idle"
  /\ (IF h = 1 THEN TRUE ELSE uploads[h - 1].pc # "idle")
  /\ LET ignored == [IdleUpload EXCEPT !.channelId = channelId, !.userId = userId]
         up == [ignored EXCEPT !.fileName = file.name, !.fileSize = file.size,
                               !.now = now]
         fileKey == FileKey(file.name, file.size)
     IN uploads' = [uploads EXCEPT ![h] =
          IF ~isFileRecordAllowed(channelId) THEN [ignored EXCEPT !.pc = "notAllowed"]
          ELSE IF ~infoOk THEN [ignored EXCEPT !.pc = "noInfo"]
          ELSE IF file.size > MaxFileSize \/ ~hasAllowedExtension(file.name)
            THEN [ignored EXCEPT !.pc = "rejected", !.fileName = file.name,
                                 !.fileSize = file.size]
          ELSE IF fileIndex[fileKey] # NoRecord
            THEN [up EXCEPT !.pc = "reuseCheck", !.recordId = fileIndex[fileKey]]
          ELSE StartCreateNewRecord(up)]
  \* if (!this.activeFiles[channelId]) this.activeFiles[channelId] = {}
  /\ activeFilesKeys' =
        IF isFileRecordAllowed(channelId) /\ infoOk
           /\ ~(file.size > MaxFileSize \/ ~hasAllowedExtension(file.name))
        THEN activeFilesKeys \cup {channelId}
        ELSE activeFilesKeys
  /\ UNCHANGED <<loadStatePending, legacyVars, conversationVars, callVars>>
  /\ UNCHANGED <<config, now, fileIndex, activeFiles, recordFiles, assetFiles,
                 stateFile, messages>>

\* await fileExists(getRecordFilePath(this.fileIndex[fileKey])): the access
ReuseCheckIO(h) ==
  /\ uploads[h].pc = "reuseCheck"
  /\ uploads' = [uploads EXCEPT ![h].pc = "reuseCont",
                                ![h].exists = IF fileExists(uploads[h].recordId)
                                             THEN "true" ELSE "false"]
  /\ UNCHANGED <<loadStatePending, activeFilesKeys, legacyVars, conversationVars, callVars>>
  /\ UNCHANGED <<config, now, fileIndex, activeFiles, recordFiles, assetFiles,
                 stateFile, messages>>

\* The uploads whose downloadFile has been started and has not settled.  The
\* slot of an upload remembers in its field pending which these were when
\* the upload set the session.
DownloadsPending == { k \in UploadSlots : uploads[k].pc = "download" }

\* the handler resumes: the record is reused, or a new one is created
ReuseCont(h) ==
  /\ uploads[h].pc = "reuseCont"
  /\ LET up == uploads[h]
         fileKey == FileKey(up.fileName, up.fileSize)
     IN IF up.exists = "true" /\ up.channelId \notin activeFilesKeys
        THEN \* this.activeFiles[channelId] is undefined: TypeError
             /\ uploads' = [uploads EXCEPT ![h].pc = "threw"]
             /\ UNCHANGED activeFiles
        ELSE IF up.exists = "true"
        THEN /\ activeFiles' = SetSession(activeFiles, up.channelId, up.userId,
                                          IndexLookup(fileIndex, fileKey), up.now)
             /\ uploads' = [uploads EXCEPT ![h].pc = "saveReuse",
                                           ![h].pending = DownloadsPending]
        ELSE /\ uploads' = [uploads EXCEPT ![h] = StartCreateNewRecord(up)]
             /\ UNCHANGED activeFiles
  /\ UNCHANGED <<loadStatePending, activeFilesKeys, legacyVars, conversationVars, callVars>>
  /\ UNCHANGED <<config, now, fileIndex, recordFiles, assetFiles, stateFile, messages>>

\* await this.saveState() of the reuse branch, then return
SaveReuseIO(h) ==
  /\ uploads[h].pc = "saveReuse"
  /\ stateFile' = SavedState
  /\ uploads' = [uploads EXCEPT ![h].pc = "reused"]
  /\ UNCHANGED <<loadStatePending, activeFilesKeys, legacyVars, conversationVars, callVars>>
  /\ UNCHANGED <<config, now, fileIndex, activeFiles, recordFiles, assetFiles, messages>>

\* _createNewRecord: one turn of while (await fileExists(...))
CreateCheck(h) ==
  /\ uploads[h].pc = "createCheck"
  /\ LET up == uploads[h]
     IN uploads' = [uploads EXCEPT ![h] =
          IF fileExists(up.recordId)
          THEN [up EXCEPT !.recordId = Disambiguated(up.fileName, up.count),
                          !.count = up.count + 1]
          ELSE [up EXCEPT !.pc = "createWrite"]]
  /\ UNCHANGED <<loadStatePending, activeFilesKeys, legacyVars, conversationVars, callVars>>
  /\ UNCHANGED <<config, now, fileIndex, activeFiles, recordFiles, assetFiles,
                 stateFile, messages>>

\* _createNewRecord: await saveJsonFile(path, initialRecord): the write
CreateWriteIO(h) ==
  /\ uploads[h].pc = "createWrite"
  /\ recordFiles' = WriteFile(recordFiles, uploads[h].recordId,
                              InitialRecord(uploads[h].recordId, uploads[h].userId))
  /\ uploads' = [uploads EXCEPT ![h].pc = "register"]
  /\ UNCHANGED <<loadStatePending, activeFilesKeys, legacyVars, conversationVars, callVars>>
  /\ UNCHANGED <<config, now, fileIndex, activeFiles, assetFiles, stateFile, messages>>

\* the handler resumes with the recordId: index and session are written
\* (the index first: the session is not written when its room has no table)
Register(h) ==
  /\ uploads[h].pc = "register"
  /\ LET up == uploads[h]
     IN /\ fileIndex' = [fileIndex EXCEPT ![FileKey(up.fileName, up.fileSize)] = up.recordId]
        /\ IF up.channelId \in activeFilesKeys
           THEN /\ activeFiles' = SetSession(activeFiles, up.channelId, up.userId,
                                             up.recordId, up.now)
                /\ uploads' = [uploads EXCEPT ![h].pc = "saveCreate",
                                              ![h].pending = DownloadsPending]
           ELSE \* this.activeFiles[channelId] is undefined: TypeError
                /\ uploads' = [uploads EXCEPT ![h].pc = "threw"]
                /\ UNCHANGED activeFiles
  /\ UNCHANGED <<loadStatePending, activeFilesKeys, legacyVars, conversationVars, callVars>>
  /\ UNCHANGED <<config, now, recordFiles, assetFiles, stateFile, messages>>

\* await this.saveState(); the download is started and handleFile returns
SaveCreateIO(h) ==
  /\ uploads[h].pc = "saveCreate"
  /\ stateFile' = SavedState
  /\ uploads' = [uploads EXCEPT ![h].pc = "download"]
  /\ UNCHANGED <<loadStatePending, activeFilesKeys, legacyVars, conversationVars, callVars>>
  /\ UNCHANGED <<config, now, fileIndex, activeFiles, recordFiles, assetFiles, messages>>

\* downloadFile succeeds: the artifact is written
DownloadOk(h) ==
  /\ uploads[h].pc = "download"
  /\ assetFiles' = assetFiles \cup {uploads[h].recordId}
  /\ uploads' = [uploads EXCEPT ![h].pc = "recorded"]
  /\ UNCHANGED <<loadStatePending, activeFilesKeys, legacyVars, conversationVars, callVars>>
  /\ UNCHANGED <<config, now, fileIndex, activeFiles, recordFiles, stateFile, messages>>

\* downloadFile throws: the catch callback starts deleteFile
DownloadFail(h) ==
  /\ uploads[h].pc = "download"
  /\ uploads' = [uploads EXCEPT ![h].pc = "rollbackDelete"]
  /\ UNCHANGED <<loadStatePending, activeFilesKeys, legacyVars, conversationVars, callVars>>
  /\ UNCHANGED <<config, now, fileIndex, activeFiles, recordFiles, assetFiles,
                 stateFile, messages>>

\* await deleteFile(getRecordFilePath(recordId)): the unlink
RollbackDeleteIO(h) ==
  /\ uploads[h].pc = "rollbackDelete"
  /\ recordFiles' = deleteFile(recordFiles, uploads[h].recordId)
  /\ uploads' = [uploads EXCEPT ![h].pc = "rollbackCont"]
  /\ UNCHANGED <<loadStatePending, activeFilesKeys, legacyVars, conversationVars, callVars>>
  /\ UNCHANGED <<config, now, fileIndex, activeFiles, assetFiles, stateFile, messages>>

\* the callback resumes: index entry and session are removed if still its own
RollbackCont(h) ==
  /\ uploads[h].pc = "rollbackCont"
  /\ LET up == uploads[h]
         fileKey == FileKey(up.fileName, up.fileSize)
     IN /\ fileIndex' = IF fileIndex[fileKey] = up.recordId
                         THEN [fileIndex EXCEPT ![fileKey] = NoRecord]
                         ELSE fileIndex
        /\ activeFiles' = IF activeFiles[up.channelId][up.userId].recordId = up.recordId
                           THEN DeleteSession(activeFiles, up.channelId, up.userId)
                           ELSE activeFiles
  /\ uploads' = [uploads EXCEPT ![h].pc = "rollbackSave"]
  /\ UNCHANGED <<loadStatePending, activeFilesKeys, legacyVars, conversationVars, callVars>>
  /\ UNCHANGED <<config, now, recordFiles, assetFiles, stateFile, messages>>

\* await this.saveState() of the rollback
RollbackSaveIO(h) ==
  /\ uploads[h].pc = "rollbackSave"
  /\ stateFile' = SavedState
  /\ uploads' = [uploads EXCEPT ![h].pc = "rolledBack"]
  /\ UNCHANGED <<loadStatePending, activeFilesKeys, legacyVars, conversationVars, callVars>>
  /\ UNCHANGED <<config, now, fileIndex, activeFiles, recordFiles, assetFiles, messages>>

RegisterStep(h) ==
  \/ ReuseCheckIO(h)
  \/ ReuseCont(h)
  \/ SaveReuseIO(h)
  \/ CreateCheck(h)
  \/ CreateWriteIO(h)
  \/ Register(h)
  \/ SaveCreateIO(h)

DownloadStep(h) ==
  \/ DownloadOk(h)
  \/ DownloadFail(h)
  \/ RollbackDeleteIO(h)
  \/ RollbackCont(h)
  \/ RollbackSaveIO(h)

\* The upload events offered to slot h.  Rooms, uploaders and sizes are
\* interchangeable, so the first event is fixed up to its validity.
UploadRooms == {"666546887", "100000001"}
UploadEvents(h) ==
  { e \in [channelId : UploadRooms, userId : Uploaders, file : FileInputs, infoOk : BOOLEAN] :
      h = 1 => e.userId = "u1" /\ e.file.size # 200 }

(***************************************************************************)
(* handleMessage.                                                          *)
(***************************************************************************)
\* session.elements.find(el => el.type === 'at')?.attrs?.id
\*   ?? session.event.message?.quote?.user?.id ?? null
getTargetFromReplyOrMention(at, quote) ==
  IF at # NoUser THEN at ELSE IF quote # NoUser THEN quote ELSE NoUser

\* Object.entries(channelActiveFiles) lists the uploaders in a fixed order.
UserOrder == <<"u1", "u2", "p1">>

TargetInfo(recordId, uploaderId) == [recordId |-> recordId, uploaderId |-> uploaderId]

RECURSIVE EntriesWithin(_, _, _, _)
\* .filter(([_, info]) => now - info.timestamp <= limit).map(...)
EntriesWithin(channelActiveFiles, t, limit, i) ==
  IF i > Len(UserOrder) THEN <<>>
  ELSE LET uploaderId == UserOrder[i]
           info == channelActiveFiles[uploaderId]
           rest == EntriesWithin(channelActiveFiles, t, limit, i + 1)
       IN IF info # NoSession /\ t - info.timestamp <= limit
          THEN <<TargetInfo(info.recordId, uploaderId)>> \o rest
          ELSE rest

\* A lookup that ignores the explicit target of a privileged sender.
findTargetRecordInfosBroadcast(af, cfg, channelId, currentUserId, explicitTargetId, t) ==
  IF isUserWhitelisted(currentUserId, cfg)
  THEN EntriesWithin(af[channelId], t, cfg.recordTimeout, 1)
  ELSE <<>>

\* A lookup that falls back to every open session when the target misses.
findTargetRecordInfosFallback(af, cfg, channelId, currentUserId, explicitTargetId, t) ==
  LET targetInfo == af[channelId][explicitTargetId]
  IN IF explicitTargetId # NoUser /\ targetInfo # NoSession
        /\ t - targetInfo.timestamp <= cfg.conversationTimeout
     THEN <<TargetInfo(targetInfo.recordId, explicitTargetId)>>
     ELSE EntriesWithin(af[channelId], t, cfg.conversationTimeout, 1)

\* A lookup that lets every sender name the session of anybody.
findTargetRecordInfosAnyTarget(af, cfg, channelId, currentUserId, explicitTargetId, t) ==
  LET who == IF explicitTargetId # NoUser THEN explicitTargetId ELSE currentUserId
      info == af[channelId][who]
  IN IF info # NoSession /\ t - info.timestamp <= cfg.conversationTimeout
     THEN <<TargetInfo(info.recordId, who)>>
     ELSE <<>>

findTargetRecordInfos(af, cfg, channelId, currentUserId, explicitTargetId, t) ==
  LET channelActiveFiles == af[channelId]
  IN IF isUserWhitelisted(currentUserId, cfg)
     THEN IF explicitTargetId # NoUser
          THEN LET targetInfo == channelActiveFiles[explicitTargetId]
               IN IF targetInfo # NoSession
                     /\ t - targetInfo.timestamp <= cfg.conversationTimeout
                  THEN <<TargetInfo(targetInfo.recordId, explicitTargetId)>>
                  ELSE <<>>
          ELSE EntriesWithin(channelActiveFiles, t, cfg.recordTimeout, 1)
     ELSE LET uploaderInfo == channelActiveFiles[currentUserId]
          IN IF uploaderInfo = NoSession
                \/ t - uploaderInfo.timestamp > cfg.conversationTimeout
             THEN <<>>
             ELSE IF explicitTargetId = NoUser \/ explicitTargetId = currentUserId
                  THEN <<TargetInfo(uploaderInfo.recordId, currentUserId)>>
                  ELSE <<>>

\* A content that never carries the prefix.
FinalContentNoPrefix(targets, hasText, image, recordId) ==
  [prefix |-> "", text |-> hasText, image |-> image,
   imageOf |-> IF image = "ok" THEN recordId ELSE NoRecord]

\* (targets.length > 1 ? AMBIGUOUS_MESSAGE_PREFIX : '') + builtMessage
FinalContent(targets, hasText, image, recordId) ==
  [prefix |-> IF Len(targets) > 1 THEN AMBIGUOUS_MESSAGE_PREFIX ELSE "",
   text |-> hasText, image |-> image,
   imageOf |-> IF image = "ok" THEN recordId ELSE NoRecord]

\* const now = Date.now(); the loop over the targets starts with the first
\* _addMessageToRecord, which suspends in loadJsonFile.
StartAppends(msg, hasText, image, t) ==
  [msg EXCEPT !.pc = "addLoad", !.now = t, !.idx = 1,
              !.content = FinalContent(msg.targets, hasText, image, msg.targets[1].recordId)]

\* handleMessage up to its first suspension.  hasText: some text element
\* is not blank; image: the message has an image element with an allowed
\* extension, whose download will succeed ("ok") or fail ("failed").
HandleMessage(m, channelId, userId, at, quote, hasText, image) ==
  /\ messages[m].pc = "idle"
  /\ (IF m = 1 THEN TRUE ELSE messages[m - 1].pc # "idle")
  /\ LET explicit == getTargetFromReplyOrMention(at, quote)
         targets == findTargetRecordInfos(activeFiles, config, channelId, userId, explicit, now)
         msg == [IdleMessage EXCEPT !.channelId = channelId, !.userId = userId,
                                    !.explicit = explicit]
         found == [msg EXCEPT !.targets = targets]
     IN messages' = [messages EXCEPT ![m] =
          IF ~isFileRecordAllowed(channelId) THEN [msg EXCEPT !.pc = "notAllowed"]
          ELSE IF targets = <<>> THEN [msg EXCEPT !.pc = "noTarget"]
          ELSE IF image # "none"
            THEN [found EXCEPT !.pc = "imageDownload", !.image = image,
                               !.content = [NoContent EXCEPT !.text = hasText]]
          ELSE IF ~hasText THEN [found EXCEPT !.pc = "noContent"]
          ELSE StartAppends(found, hasText, "none", now)]
  /\ UNCHANGED <<loadStatePending, activeFilesKeys, legacyVars, conversationVars, callVars>>
  /\ UNCHANGED <<config, now, fileIndex, activeFiles, recordFiles, assetFiles,
                 stateFile, uploads>>

\* _buildMessageContent: await downloadFile(...) of the image returns or throws
ImageDownloaded(m) ==
  /\ messages[m].pc = "imageDownload"
  /\ LET msg == messages[m]
         primaryRecordId == msg.targets[1].recordId
     IN /\ assetFiles' = IF msg.image = "ok"
                          THEN assetFiles \cup {Name(primaryRecordId.root, primaryRecordId.sfx, "-image")}
                          ELSE assetFiles
        /\ messages' = [messages EXCEPT ![m] =
                          StartAppends(msg, msg.content.text, msg.image, now)]
  /\ UNCHANGED <<loadStatePending, activeFilesKeys, legacyVars, conversationVars, callVars>>
  /\ UNCHANGED <<config, now, fileIndex, activeFiles, recordFiles, stateFile, uploads>>

\* _addMessageToRecord: loadJsonFile returns the record (or null), the
\* message is pushed and saveJsonFile is started
AddLoad(m) ==
  /\ messages[m].pc = "addLoad"
  /\ LET msg == messages[m]
         recordId == msg.targets[msg.idx].recordId
     IN messages' = [messages EXCEPT ![m] =
          IF fileExists(recordId)
          THEN [msg EXCEPT !.pc = "addWrite",
                  !.record = [recordFiles[recordId] EXCEPT !.messages =
                     Append(@, [content |-> msg.content, userId |-> msg.userId])]]
          ELSE [msg EXCEPT !.pc = "refresh"]]
  /\ UNCHANGED <<loadStatePending, activeFilesKeys, legacyVars, conversationVars, callVars>>
  /\ UNCHANGED <<config, now, fileIndex, activeFiles, recordFiles, assetFiles,
                 stateFile, uploads>>

\* _addMessageToRecord: saveJsonFile writes the record file
AddWriteIO(m) ==
  /\ messages[m].pc = "addWrite"
  /\ LET msg == messages[m]
         recordId == msg.targets[msg.idx].recordId
     IN /\ recordFiles' = WriteFile(recordFiles, recordId, msg.record)
        /\ messages' = [messages EXCEPT ![m].pc = "refresh",
                                        ![m].written = Append(@, recordId)]
  /\ UNCHANGED <<loadStatePending, activeFilesKeys, legacyVars, conversationVars, callVars>>
  /\ UNCHANGED <<config, now, fileIndex, activeFiles, assetFiles, stateFile, uploads>>

\* A write error that no catch stops: handleMessage rejects.
WriteErrorPropagates(msg, recordId) ==
  [msg EXCEPT !.pc = "threw", !.failed = Append(@, recordId)]

\* fs.writeFile rejects: saveJsonFile catches, logs and returns, and
\* _addMessageToRecord returns to the loop of handleMessage
WriteErrorSwallowed(msg, recordId) ==
  [msg EXCEPT !.pc = "refresh", !.failed = Append(@, recordId)]

\* _addMessageToRecord: saveJsonFile fails to write the record file
AddWriteFails(m) ==
  /\ messages[m].pc = "addWrite"
  /\ LET msg == messages[m]
         recordId == msg.targets[msg.idx].recordId
     IN messages' = [messages EXCEPT ![m] = WriteErrorSwallowed(msg, recordId)]
  /\ UNCHANGED <<loadStatePending, activeFilesKeys, legacyVars, conversationVars, callVars>>
  /\ UNCHANGED <<config, now, fileIndex, activeFiles, recordFiles, assetFiles,
                 stateFile, uploads>>

\* A loop body that leaves the session as it is.
RefreshSessionNever(af, channelId, target, t) == af

\* activeSession.timestamp = now
RefreshSession(af, channelId, target, t) ==
  IF af[channelId][target.uploaderId] # NoSession
     /\ af[channelId][target.uploaderId].recordId = target.recordId
  THEN [af EXCEPT ![channelId][target.uploaderId].timestamp = t]
  ELSE af

\* the loop body resumes after _addMessageToRecord: the session is refreshed
\* and the next target is started, or the state is saved
Refresh(m) ==
  /\ messages[m].pc = "refresh"
  /\ LET msg == messages[m]
         target == msg.targets[msg.idx]
         changed == /\ activeFiles[msg.channelId][target.uploaderId] # NoSession
                    /\ activeFiles[msg.channelId][target.uploaderId].recordId = target.recordId
         stateChanged == msg.stateChanged \/ changed
     IN /\ activeFiles' = RefreshSession(activeFiles, msg.channelId, target, msg.now)
        /\ messages' = [messages EXCEPT ![m] =
             IF msg.idx < Len(msg.targets)
             THEN [msg EXCEPT !.pc = "addLoad", !.idx = msg.idx + 1,
                              !.stateChanged = stateChanged]
             ELSE [msg EXCEPT !.pc = IF stateChanged THEN "saveState" ELSE "done",
                              !.stateChanged = stateChanged]]
  /\ UNCHANGED <<loadStatePending, activeFilesKeys, legacyVars, conversationVars, callVars>>
  /\ UNCHANGED <<config, now, fileIndex, recordFiles, assetFiles, stateFile, uploads>>

\* if (stateChanged) await this.saveState()
SaveMessageIO(m) ==
  /\ messages[m].pc = "saveState"
  /\ stateFile' = SavedState
  /\ messages' = [messages EXCEPT ![m].pc = "done"]
  /\ UNCHANGED <<loadStatePending, activeFilesKeys, legacyVars, conversationVars, callVars>>
  /\ UNCHANGED <<config, now, fileIndex, activeFiles, recordFiles, assetFiles, uploads>>

MessageStep(m) ==
  \/ ImageDownloaded(m)
  \/ AddLoad(m)
  \/ AddWriteIO(m)
  \/ Refresh(m)
  \/ SaveMessageIO(m)

MessageRooms == {"666546887", "100000001"}
MessageEvents ==
  [channelId : MessageRooms, userId : Users, at : Users \cup {NoUser},
   quote : Users \cup {NoUser}, hasText : BOOLEAN, image : {"none", "ok", "failed"}]

MessageArrives ==
  \E m \in MessageSlots : \E e \in MessageEvents :
     HandleMessage(m, e.channelId, e.userId, e.at, e.quote, e.hasText, e.image)

UploadArrives ==
  \E h \in UploadSlots : \E e \in UploadEvents(h) :
     HandleFile(h, e.channelId, e.userId, e.file, e.infoOk)

NextUpload ==
  \/ Tick
  \/ UploadArrives
  \/ \E h \in UploadSlots : RegisterStep(h)
  \/ \E h \in UploadSlots : DownloadStep(h)

SpecUpload == Init /\ [][NextUpload]_vars

(***************************************************************************)
(* The service right after its construction.  The constructor starts       *)
(* loadState() and does not wait for it, and the message listener is       *)
(* registered in the same turn, so upload events can be handled while the  *)
(* state file is being read.  logs_state.json is missing, or it is what an *)
(* earlier run saved after u1's a.zip was recorded in the first room.      *)
(* The clock does not advance during the start.                            *)
(***************************************************************************)
\* loadState() resumes: both tables are replaced by what the file holds
LoadState ==
  /\ loadStatePending
  /\ loadStatePending' = FALSE
  /\ fileIndex' = stateFile.fileIndex
  /\ activeFiles' = stateFile.activeFiles
  /\ activeFilesKeys' = stateFile.channels
  /\ UNCHANGED <<legacyVars, conversationVars, callVars>>
  /\ UNCHANGED <<config, now, recordFiles, assetFiles, stateFile, uploads, messages>>

InitStartup ==
  /\ config \in Configs
  /\ targetCall = IdleTargetCall
  /\ CollaboratorsConstructed
  /\ now = 0
  /\ fileIndex = [k \in FileKeys |-> NoRecord]
  /\ activeFiles = [c \in Channels |-> [u \in Users |-> NoSession]]
  /\ loadStatePending = TRUE
  /\ activeFilesKeys = {}
  /\ uploads = [h \in UploadSlots |-> IdleUpload]
  /\ messages = [m \in MessageSlots |-> IdleMessage]
  /\ ConversationConstructed
  /\ LegacyConstructed
  /\ \E earlier \in BOOLEAN :
       LET name == Name("a", <<>>, ".zip")
           room == "666546887"
       IN IF earlier
          THEN /\ stateFile =
                    [fileIndex |-> [fileIndex EXCEPT ![FileKey(name, 100)] = name],
                     activeFiles |-> SetSession(activeFiles, room, "u1", name, 0),
                     channels |-> {room}]
               /\ recordFiles = WriteFile(<<>>, name, InitialRecord(name, "u1"))
               /\ assetFiles = {name}
          ELSE /\ stateFile = SavedState
               /\ recordFiles = <<>>
               /\ assetFiles = {}

NextStartup ==
  \/ LoadState
  \/ UploadArrives
  \/ \E h \in UploadSlots : RegisterStep(h)
  \/ \E h \in UploadSlots : DownloadStep(h)

SpecStartup == InitStartup /\ [][NextStartup]_vars

(***************************************************************************)
(* The service while the download of a registered upload is pending: u1    *)
(* has uploaded a.zip in the first room at time 0, and u2 has uploaded     *)
(* nothing, a file of the same name and another size (downloaded since),   *)
(* or the same file (reused).                                              *)
(***************************************************************************)
Room == "666546887"
FileA == Name("a", <<>>, ".zip")
FileA1 == Disambiguated(FileA, 1)

Downloading(userId, fileSize, recordId, t) ==
  [IdleUpload EXCEPT !.pc = "download", !.channelId = Room, !.userId = userId,
                     !.fileName = FileA, !.fileSize = fileSize, !.now = t,
                     !.recordId = recordId, !.count = IF recordId = FileA THEN 1 ELSE 2]

InitMessage ==
  /\ config \in Configs
  /\ targetCall = IdleTargetCall
  /\ CollaboratorsConstructed
  /\ messages = [m \in MessageSlots |-> IdleMessage]
  /\ ConversationConstructed
  /\ \E second \in {"none", "other", "same"}, t \in 0..1 :
       LET first == Downloading("u1", 100, FileA, 0)
           index1 == [[k \in FileKeys |-> NoRecord] EXCEPT ![FileKey(FileA, 100)] = FileA]
           active1 == SetSession([c \in Channels |-> [u \in Users |-> NoSession]],
                                 Room, "u1", FileA, 0)
           files1 == WriteFile(<<>>, FileA, InitialRecord(FileA, "u1"))
       IN /\ now = (IF second = "none" THEN 0 ELSE t)
          /\ uploads = [h \in UploadSlots |->
                IF h = 1 THEN first
                ELSE IF h = 2 /\ second = "other"
                  THEN [Downloading("u2", 200, FileA1, t) EXCEPT
                          !.pc = "recorded", !.pending = {1}]
                ELSE IF h = 2 /\ second = "same"
                  THEN [Downloading("u2", 100, FileA, t) EXCEPT
                          !.pc = "reused", !.count = 0, !.exists = "true",
                          !.pending = {1}]
                ELSE IdleUpload]
          /\ fileIndex = (IF second = "other" /\ NumUploads >= 2
                          THEN [index1 EXCEPT ![FileKey(FileA, 200)] = FileA1]
                          ELSE index1)
          /\ activeFiles = (IF second = "other" /\ NumUploads >= 2
                            THEN SetSession(active1, Room, "u2", FileA1, t)
                            ELSE IF second = "same" /\ NumUploads >= 2
                            THEN SetSession(active1, Room, "u2", FileA, t)
                            ELSE active1)
          /\ recordFiles = (IF second = "other" /\ NumUploads >= 2
                            THEN WriteFile(files1, FileA1, InitialRecord(FileA1, "u2"))
                            ELSE files1)
          /\ assetFiles = (IF second = "other" /\ NumUploads >= 2 THEN {FileA1} ELSE {})
  /\ loadStatePending = FALSE
  /\ activeFilesKeys = {Room}
  /\ stateFile = SavedState
  /\ LegacyConstructed

NextMessage ==
  \/ Tick
  \/ \E h \in UploadSlots : DownloadStep(h)
  \/ MessageArrives
  \/ \E m \in MessageSlots : MessageStep(m)

SpecMessage == InitMessage /\ [][NextMessage]_vars

(***************************************************************************)
(* The service under the default configuration, some time after the        *)
(* uploads of u1 (a.zip) and u2 (a(1).zip) of time 0 were recorded: the    *)
(* message events alone, at one reading of the clock.                      *)
(***************************************************************************)

\* recordTimeout: Schema.number().default(2), conversationTimeout: default(10)
DefaultConfigs ==
  { [whitelist |-> {entry}, additionalGroups |-> {},
     recordTimeout |-> 2, conversationTimeout |-> 10] :
      entry \in {StringEntry("p1"), ObjectEntry("p1")} }

\* Date.now() when the message comes: the sessions are 0 ms to 10 minutes old.
ClockReadings == {0, 2, 3, 10, 11, 30000, 120000, 600000}

InitDefaults ==
  /\ config \in DefaultConfigs
  /\ targetCall = IdleTargetCall
  /\ CollaboratorsConstructed
  /\ now \in ClockReadings
  /\ messages = [m \in MessageSlots |-> IdleMessage]
  /\ ConversationConstructed
  /\ uploads = [h \in UploadSlots |->
        IF h = 1 THEN [Downloading("u1", 100, FileA, 0) EXCEPT !.pc = "recorded"]
        ELSE IF h = 2 THEN [Downloading("u2", 200, FileA1, 0) EXCEPT !.pc = "recorded"]
        ELSE IdleUpload]
  /\ fileIndex = [[k \in FileKeys |-> NoRecord] EXCEPT
                    ![FileKey(FileA, 100)] = FileA, ![FileKey(FileA, 200)] = FileA1]
  /\ activeFiles = SetSession(SetSession([c \in Channels |-> [u \in Users |-> NoSession]],
                                        Room, "u1", FileA, 0),
                              Room, "u2", FileA1, 0)
  /\ recordFiles = WriteFile(WriteFile(<<>>, FileA, InitialRecord(FileA, "u1")),
                             FileA1, InitialRecord(FileA1, "u2"))
  /\ assetFiles = {FileA, FileA1}
  /\ loadStatePending = FALSE
  /\ activeFilesKeys = {Room}
  /\ stateFile = SavedState
  /\ LegacyConstructed

NextDefaults ==
  \/ MessageArrives
  \/ \E m \in MessageSlots : MessageStep(m)

SpecDefaults == InitDefaults /\ [][NextDefaults]_vars

\* The same, on a disk whose writes of record files can fail.
NextFaultyDisk ==
  \/ NextMessage
  \/ \E m \in MessageSlots : AddWriteFails(m)

SpecFaultyDisk == InitMessage /\ [][NextFaultyDisk]_vars

Next ==
  \/ Tick
  \/ UploadArrives
  \/ \E h \in UploadSlots : RegisterStep(h)
  \/ \E h \in UploadSlots : DownloadStep(h)
  \/ MessageArrives
  \/ \E m \in MessageSlots : MessageStep(m)

Spec == Init /\ [][Next]_vars

(***************************************************************************)
(* The timer-driven FileRecordService.  It serves one room, and every      *)
(* message it is offered is text with at most one mention and no quote     *)
(* and no image.  A (room, uploader) pair holds at most one recording at a *)
(* time here, so the loops over uploaderFiles and mentionedFiles have one  *)
(* iteration.  The completion of a write and the code that follows it up   *)
(* to the next read or write of the disk are one step.                     *)
(***************************************************************************)
Includes(seq, x) == \E i \in 1..Len(seq) : seq[i] = x
Without(seq, x) == SelectSeq(seq, LAMBDA y : y # x)

clearTimeout(outstanding, id) == {t \in outstanding : t.id # id}

getActiveFilesInChannel == channelActiveSet

\* A reading of Date.now() is never 0, so the test of lastMessageTime is the
\* test of its presence.
isFileUploaderRecentlyActive(fileName) ==
  LET lastMessageTime == recentUploaderMessages[fileName]
  IN lastMessageTime # NoTime /\ now - lastMessageTime <= UPLOADER_MESSAGE_WINDOW

associateUnlinkedAnyAge(cache, fileName) ==
  [i \in 1..Len(cache) |->
     IF cache[i].relatedFiles = <<>>
     THEN [cache[i] EXCEPT !.relatedFiles = <<fileName>>]
     ELSE cache[i]]

associateUnlinkedCacheMessages(cache, fileName) ==
  [i \in 1..Len(cache) |->
     IF cache[i].relatedFiles = <<>> /\ now - cache[i].timestamp <= UPLOADER_MESSAGE_WINDOW
     THEN [cache[i] EXCEPT !.relatedFiles = <<fileName>>]
     ELSE cache[i]]

\* Array.prototype.sort is stable: entries of one timestamp keep their order.
RECURSIVE SortByTimestamp(_)
SortByTimestamp(seq) ==
  IF seq = <<>> THEN <<>>
  ELSE LET sorted == SortByTimestamp(SubSeq(seq, 1, Len(seq) - 1))
           c == seq[Len(seq)]
           pos == Cardinality({i \in 1..Len(sorted) : sorted[i].timestamp <= c.timestamp})
       IN SubSeq(sorted, 1, pos) \o <<c>> \o SubSeq(sorted, pos + 1, Len(sorted))

\* The entries flushCachedMessagesForFile collects, in the order it writes them.
relevantMessages(cache, fileName) ==
  SortByTimestamp(SelectSeq(cache, LAMBDA c : Includes(c.relatedFiles, fileName)))

\* cache.relatedFiles = cache.relatedFiles.filter(f => f !== fileName), and
\* the entry is deleted when no file is left.
Unlink(cache, key, fileName) ==
  LET filtered == [i \in 1..Len(cache) |->
                     IF cache[i].key = key
                     THEN [cache[i] EXCEPT !.relatedFiles = Without(@, fileName)]
                     ELSE cache[i]]
  IN SelectSeq(filtered, LAMBDA c : ~(c.key = key /\ c.relatedFiles = <<>>))

\* existing.messages.push(message) and the file as it is written back
Pushed(copy, message) == LegacyFile(Append(copy.messages, message))

\* if (recording.whitelistTimeout) clearTimeout(...); recording.whitelistTimeout = setTimeout(...)
RescheduleWhitelistTimeout(outstanding, recording, id, fileName) ==
  clearTimeout(outstanding, recording.whitelistTimeout)
    \cup {Timer(id, "whitelistTimeout", fileName, now + WHITELIST_REPLY_TIMEOUT)}

endRecordingSession(recordName, outstanding) ==
  LET recording == recordings[recordName]
      filtered == [i \in 1..Len(whitelistMessageCache) |->
                     [whitelistMessageCache[i] EXCEPT !.relatedFiles = Without(@, recordName)]]
  IN /\ timers' = IF recordName \in activeRecordings
                  THEN clearTimeout(clearTimeout(outstanding, recording.timeout),
                                    recording.whitelistTimeout)
                  ELSE outstanding
     /\ activeRecordings' = activeRecordings \ {recordName}
     /\ recentUploaderMessages' = [recentUploaderMessages EXCEPT ![recordName] = NoTime]
     /\ channelActiveSet' = Without(channelActiveSet, recordName)
     /\ whitelistMessageCache' =
          SelectSeq(filtered, LAMBDA c :
            ~(c.relatedFiles = <<>> /\ now - c.timestamp > UPLOADER_MESSAGE_WINDOW))

\* A timer that is due fires and runs its callback.
TimerFires ==
  \E t \in timers :
    /\ now >= t.due
    /\ endRecordingSession(t.fileName, timers \ {t})
    /\ UNCHANGED <<recordings, legacyRecords, timerSeq, legacyUpload, legacyMessages>>
    /\ UNCHANGED <<config, now, serviceVars, conversationVars, callVars>>

cleanupExpiredCache(cache) ==
  SelectSeq(cache, LAMBDA c :
    ~(now - c.timestamp > UPLOADER_MESSAGE_WINDOW /\ c.relatedFiles = <<>>))

cleanupExpiredUploaderMessages(recent) ==
  [n \in LegacyNames |->
     IF recent[n] # NoTime /\ now - recent[n] > UPLOADER_MESSAGE_WINDOW
     THEN NoTime ELSE recent[n]]

\* The callback of the constructor's setInterval; the step is taken when it
\* finds something to delete.
CleanupInterval ==
  /\ whitelistMessageCache' = cleanupExpiredCache(whitelistMessageCache)
  /\ recentUploaderMessages' = cleanupExpiredUploaderMessages(recentUploaderMessages)
  /\ <<whitelistMessageCache', recentUploaderMessages'>>
       # <<whitelistMessageCache, recentUploaderMessages>>
  /\ UNCHANGED <<activeRecordings, recordings, channelActiveSet, legacyRecords,
                 timers, timerSeq, legacyUpload, legacyMessages>>
  /\ UNCHANGED <<config, now, serviceVars, conversationVars, callVars>>

\* handleFile up to its first await: the recordings the uploader holds in
\* the room are ended.
LegacyHandleFile(userId, file) ==
  /\ legacyUpload.pc = "idle"
  /\ IF file.size > MaxFileSize \/ ~hasAllowedExtension(file.name)
     THEN /\ legacyUpload' = [pc |-> "rejected", userId |-> userId]
          /\ UNCHANGED <<activeRecordings, recentUploaderMessages, channelActiveSet, timers>>
     ELSE LET old == {n \in activeRecordings : recordings[n].uploaderUserId = userId}
              ids == {recordings[n].timeout : n \in old}
                       \cup {recordings[n].whitelistTimeout : n \in old}
          IN /\ legacyUpload' = [pc |-> "download", userId |-> userId]
             /\ timers' = {t \in timers : t.id \notin ids}
             /\ activeRecordings' = activeRecordings \ old
             /\ recentUploaderMessages' =
                  [n \in LegacyNames |-> IF n \in old THEN NoTime
                                         ELSE recentUploaderMessages[n]]
             /\ channelActiveSet' = SelectSeq(channelActiveSet, LAMBDA n : n \notin old)
  /\ UNCHANGED <<recordings, whitelistMessageCache, legacyRecords, timerSeq, legacyMessages>>
  /\ UNCHANGED <<config, now, serviceVars, conversationVars, callVars>>

\* downloadFile returns null
LegacyDownloadFail ==
  /\ legacyUpload.pc = "download"
  /\ legacyUpload' = [legacyUpload EXCEPT !.pc = "failed"]
  /\ UNCHANGED <<activeRecordings, recordings, channelActiveSet, whitelistMessageCache,
                 recentUploaderMessages, legacyRecords, timers, timerSeq, legacyMessages>>
  /\ UNCHANGED <<config, now, serviceVars, conversationVars, callVars>>

\* saveFileRecordUnique writes the record under the first free name, and the
\* recording is registered with its 24-hour timer.
LegacyRegister ==
  /\ legacyUpload.pc = "download"
  /\ \E i \in 1..Len(LegacyNameSeq) :
       LET recordName == LegacyNameSeq[i] IN
       /\ ~legacyRecords[recordName].exists
       /\ \A j \in 1..(i - 1) : legacyRecords[LegacyNameSeq[j]].exists
       /\ legacyRecords' = [legacyRecords EXCEPT ![recordName] = LegacyFile(<<>>)]
       /\ channelActiveSet' = Append(channelActiveSet, recordName)
       /\ timerSeq' = timerSeq + 1
       /\ timers' = timers \cup {Timer(timerSeq + 1, "timeout", recordName,
                                       now + RECORDING_DURATION)}
       /\ activeRecordings' = activeRecordings \cup {recordName}
       /\ recordings' = [recordings EXCEPT
                           ![recordName] = Recording(legacyUpload.userId, timerSeq + 1)]
  /\ legacyUpload' = [legacyUpload EXCEPT !.pc = "recorded"]
  /\ UNCHANGED <<whitelistMessageCache, recentUploaderMessages, legacyMessages>>
  /\ UNCHANGED <<config, now, serviceVars, conversationVars, callVars>>

\* if (recording.whitelistTimeout) { clearTimeout(...); recording.whitelistTimeout = undefined }
ClearWhitelistTimeout(fileName) ==
  /\ timers' = clearTimeout(timers, recordings[fileName].whitelistTimeout)
  /\ recordings' = [recordings EXCEPT ![fileName].whitelistTimeout = NoTimer]

\* flushCachedMessagesForFile up to its first await, or, with nothing to
\* flush, the end of processUploaderMessage.
FlushOrFinish(m, msg, cache) ==
  LET list == relevantMessages(cache, msg.fileName)
  IN IF list = <<>>
     THEN /\ legacyMessages' = [legacyMessages EXCEPT ![m] = Returned(msg, "done")]
          /\ ClearWhitelistTimeout(msg.fileName)
     ELSE /\ legacyMessages' = [legacyMessages EXCEPT ![m] =
                [msg EXCEPT !.pc = "flushLoad", !.list = list, !.idx = 1]]
          /\ UNCHANGED <<recordings, timers>>

processUploaderMessage(m, msg, uploaderFiles) ==
  IF msg.at # NoUser /\ ~isUserWhitelisted(msg.at, config)
  THEN /\ legacyMessages' = [legacyMessages EXCEPT ![m] = Returned(msg, "skipped")]
       /\ UNCHANGED <<recordings, whitelistMessageCache, recentUploaderMessages, timers>>
  ELSE LET fileName == uploaderFiles[1]
           cache == associateUnlinkedCacheMessages(whitelistMessageCache, fileName)
       IN /\ recentUploaderMessages' = [recentUploaderMessages EXCEPT ![fileName] = now]
          /\ whitelistMessageCache' = cache
          /\ IF ~msg.blank
             THEN /\ legacyMessages' = [legacyMessages EXCEPT ![m] =
                        [msg EXCEPT !.pc = "textLoad", !.fileName = fileName]]
                  /\ UNCHANGED <<recordings, timers>>
             ELSE FlushOrFinish(m, [msg EXCEPT !.fileName = fileName], cache)

processWhitelistMessage(m, id, msg, channelFiles) ==
  LET mentionedFiles ==
        SelectSeq(channelFiles, LAMBDA f :
          f \in activeRecordings /\ recordings[f].uploaderUserId = msg.at)
  IN IF mentionedFiles # <<>>
     THEN /\ legacyMessages' = [legacyMessages EXCEPT ![m] =
                [msg EXCEPT !.pc = "replyLoad", !.fileName = mentionedFiles[1]]]
          /\ UNCHANGED <<recordings, whitelistMessageCache, recentUploaderMessages, timers>>
     ELSE LET recentActiveFiles == SelectSeq(channelFiles, isFileUploaderRecentlyActive)
          IN /\ whitelistMessageCache' = Append(whitelistMessageCache,
                  CacheEntry(id, MessageRecord(id, msg.userId, msg.blank), now,
                             recentActiveFiles))
             /\ legacyMessages' = [legacyMessages EXCEPT ![m] = Returned(msg, "cached")]
             /\ UNCHANGED <<recordings, recentUploaderMessages, timers>>

\* handleMessage up to its first await.  session.content holds the text,
\* the mention and the image element, session.timestamp is the time of the
\* event, and the message id is the slot of the handler.  image: the message
\* has an image element with an allowed extension whose download succeeds
\* ("ok") or fails ("failed").
handleLegacyMessage(m, userId, at, hasText, image) ==
  /\ legacyMessages[m].pc = "idle"
  /\ LET channelFiles == getActiveFilesInChannel
         uploaderFiles == SelectSeq(channelFiles, LAMBDA f :
                            f \in activeRecordings /\ recordings[f].uploaderUserId = userId)
         msg == [IdleLegacyMessage EXCEPT
                   !.userId = userId, !.at = at, !.image = image,
                   !.blank = (~hasText /\ at = NoUser /\ image = "none"),
                   !.timestamp = now]
     IN IF channelFiles = <<>>
        THEN /\ legacyMessages' = [legacyMessages EXCEPT ![m] = Returned(msg, "ignored")]
             /\ UNCHANGED <<recordings, whitelistMessageCache, recentUploaderMessages, timers>>
        ELSE IF uploaderFiles # <<>>
        THEN processUploaderMessage(m, msg, uploaderFiles)
        ELSE IF isUserWhitelisted(userId, config)
        THEN processWhitelistMessage(m, m, msg, channelFiles)
        ELSE /\ legacyMessages' = [legacyMessages EXCEPT ![m] = Returned(msg, "ignored")]
             /\ UNCHANGED <<recordings, whitelistMessageCache, recentUploaderMessages, timers>>
  /\ UNCHANGED <<activeRecordings, channelActiveSet, legacyRecords, timerSeq, legacyUpload>>
  /\ UNCHANGED <<config, now, serviceVars, conversationVars, callVars>>

LegacyHandleMessage(m, userId, at, hasText) ==
  handleLegacyMessage(m, userId, at, hasText, "none")

\* const existing = await this.readFileRecord(fileName)
LegacyLoad(m, to) ==
  /\ legacyMessages' = [legacyMessages EXCEPT
        ![m].pc = to, ![m].copy = legacyRecords[legacyMessages[m].fileName]]
  /\ UNCHANGED <<activeRecordings, recordings, channelActiveSet, whitelistMessageCache,
                 recentUploaderMessages, legacyRecords, timers, timerSeq, legacyUpload>>
  /\ UNCHANGED <<config, now, serviceVars, conversationVars, callVars>>

TextLoad(m) ==
  /\ legacyMessages[m].pc = "textLoad"
  /\ LegacyLoad(m, "textWrite")

ReplyLoad(m) ==
  /\ legacyMessages[m].pc = "replyLoad"
  /\ LegacyLoad(m, "replyWrite")

FlushLoad(m) ==
  /\ legacyMessages[m].pc = "flushLoad"
  /\ LegacyLoad(m, "flushWrite")

\* await fs.writeFile(recordPath, ...) of addMessageToRecord
LegacyWrite(msg, message) ==
  legacyRecords' = IF msg.copy.exists
                   THEN [legacyRecords EXCEPT ![msg.fileName] = Pushed(msg.copy, message)]
                   ELSE legacyRecords

\* The uploader's text is written; recordImages begins if the message has an
\* image, else the flush.
TextWrite(m) ==
  LET msg == legacyMessages[m] IN
  /\ msg.pc = "textWrite"
  /\ LegacyWrite(msg, MessageRecord(m, msg.userId, FALSE))
  /\ IF msg.image # "none"
     THEN /\ legacyMessages' = [legacyMessages EXCEPT ![m] =
                [msg EXCEPT !.pc = "imageDownload", !.copy = NoLegacyFile]]
          /\ UNCHANGED <<recordings, timers>>
     ELSE FlushOrFinish(m, [msg EXCEPT !.copy = NoLegacyFile], whitelistMessageCache)
  /\ UNCHANGED <<activeRecordings, channelActiveSet, whitelistMessageCache,
                 recentUploaderMessages, timerSeq, legacyUpload>>
  /\ UNCHANGED <<config, now, serviceVars, conversationVars, callVars>>

\* recordWhitelistDirectReply after await this.recordText(...)
ReplyWrite(m) ==
  LET msg == legacyMessages[m]
      recording == recordings[msg.fileName]
  IN /\ msg.pc = "replyWrite"
     /\ LegacyWrite(msg, MessageRecord(m, msg.userId, FALSE))
     /\ timerSeq' = timerSeq + 1
     /\ timers' = RescheduleWhitelistTimeout(timers, recording, timerSeq + 1, msg.fileName)
     /\ recordings' = [recordings EXCEPT ![msg.fileName].whitelistTimeout = timerSeq + 1]
     /\ legacyMessages' = [legacyMessages EXCEPT ![m] = Returned(msg, "done")]
     /\ UNCHANGED <<activeRecordings, channelActiveSet, whitelistMessageCache,
                    recentUploaderMessages, legacyUpload>>
     /\ UNCHANGED <<config, now, serviceVars, conversationVars, callVars>>

\* One iteration of the loop of flushCachedMessagesForFile after its await.
FlushWrite(m) ==
  LET msg == legacyMessages[m]
      entry == msg.list[msg.idx]
      next == [msg EXCEPT !.copy = NoLegacyFile]
  IN /\ msg.pc = "flushWrite"
     /\ LegacyWrite(msg, entry.message)
     /\ whitelistMessageCache' = Unlink(whitelistMessageCache, entry.key, msg.fileName)
     /\ IF msg.idx < Len(msg.list)
        THEN /\ legacyMessages' = [legacyMessages EXCEPT ![m] =
                   [next EXCEPT !.pc = "flushLoad", !.idx = msg.idx + 1]]
             /\ UNCHANGED <<recordings, timers>>
        ELSE /\ legacyMessages' = [legacyMessages EXCEPT ![m] = Returned(msg, "done")]
             /\ ClearWhitelistTimeout(msg.fileName)
     /\ UNCHANGED <<activeRecordings, channelActiveSet, recentUploaderMessages,
                    timerSeq, legacyUpload>>
     /\ UNCHANGED <<config, now, serviceVars, conversationVars, callVars>>

\* recordImages: const downloadResult = await this.downloadFile(...), which
\* returns null when the download fails; then nothing is added for the image.
LegacyImageDownload(m) ==
  LET msg == legacyMessages[m] IN
  /\ msg.pc = "imageDownload"
  /\ IF msg.image = "ok"
     THEN /\ legacyMessages' = [legacyMessages EXCEPT ![m].pc = "imageLoad"]
          /\ UNCHANGED <<recordings, timers>>
     ELSE FlushOrFinish(m, msg, whitelistMessageCache)
  /\ UNCHANGED <<activeRecordings, channelActiveSet, whitelistMessageCache,
                 recentUploaderMessages, legacyRecords, timerSeq, legacyUpload>>
  /\ UNCHANGED <<config, now, serviceVars, conversationVars, callVars>>

ImageLoad(m) ==
  /\ legacyMessages[m].pc = "imageLoad"
  /\ LegacyLoad(m, "imageWrite")

\* await this.fileManager.addMessageToRecord(fileName, imgRecord), and the
\* flush begins.
ImageWrite(m) ==
  LET msg == legacyMessages[m] IN
  /\ msg.pc = "imageWrite"
  /\ LegacyWrite(msg, ImageRecord(m, msg.userId))
  /\ FlushOrFinish(m, [msg EXCEPT !.copy = NoLegacyFile], whitelistMessageCache)
  /\ UNCHANGED <<activeRecordings, channelActiveSet, whitelistMessageCache,
                 recentUploaderMessages, timerSeq, legacyUpload>>
  /\ UNCHANGED <<config, now, serviceVars, conversationVars, callVars>>

LegacyImageStep(m) ==
  \/ LegacyImageDownload(m)
  \/ ImageLoad(m)
  \/ ImageWrite(m)

LegacyMessageStep(m) ==
  \/ TextLoad(m)
  \/ TextWrite(m)
  \/ ReplyLoad(m)
  \/ ReplyWrite(m)
  \/ FlushLoad(m)
  \/ FlushWrite(m)

LegacyUploadArrives ==
  \E userId \in Uploaders : \E file \in FileInputs : LegacyHandleFile(userId, file)

\* Slots are taken in order: the handlers are interchangeable.  A message
\* with a mention has content whether or not it has text.
LegacyMessageArrives ==
  \E m \in LegacyMessageSlots : \E userId \in Users : \E at \in Uploaders \cup {NoUser} :
    \E hasText \in BOOLEAN :
      /\ \A k \in 1..(m - 1) : legacyMessages[k].pc # "idle"
      /\ at # NoUser => hasText
      /\ LegacyHandleMessage(m, userId, at, hasText)

(***************************************************************************)
(* The timer-driven service with no recording or with the recording "a"    *)
(* of u1, made at time 0.                                                  *)
(***************************************************************************)
InitLegacy ==
  /\ config \in Configs
  /\ targetCall = IdleTargetCall
  /\ CollaboratorsConstructed
  /\ now = 0
  /\ fileIndex = [k \in FileKeys |-> NoRecord]
  /\ activeFiles = [c \in Channels |-> [u \in Users |-> NoSession]]
  /\ recordFiles = <<>>
  /\ assetFiles = {}
  /\ loadStatePending = FALSE
  /\ activeFilesKeys = {}
  /\ stateFile = SavedState
  /\ uploads = [h \in UploadSlots |-> IdleUpload]
  /\ messages = [m \in MessageSlots |-> IdleMessage]
  /\ ConversationConstructed
  /\ \E count \in 0..1 :
       LET held == {LegacyNameSeq[i] : i \in 1..count}
       IN /\ activeRecordings = held
          /\ recordings = [n \in LegacyNames |->
                IF n \in held THEN Recording("u1", 1) ELSE NoRecording]
          /\ channelActiveSet = SubSeq(LegacyNameSeq, 1, count)
          /\ legacyRecords = [n \in LegacyNames |->
                IF n \in held THEN LegacyFile(<<>>) ELSE NoLegacyFile]
          /\ timers = {Timer(1, "timeout", n, RECORDING_DURATION) : n \in held}
          /\ timerSeq = count
  /\ whitelistMessageCache = <<>>
  /\ recentUploaderMessages = [n \in LegacyNames |-> NoTime]
  /\ legacyUpload = IdleLegacyUpload
  /\ legacyMessages = [m \in LegacyMessageSlots |-> IdleLegacyMessage]

NextLegacy ==
  \/ Tick
  \/ TimerFires
  \/ CleanupInterval
  \/ LegacyUploadArrives
  \/ LegacyDownloadFail
  \/ LegacyRegister
  \/ LegacyMessageArrives
  \/ \E m \in LegacyMessageSlots : LegacyMessageStep(m)

SpecLegacy == InitLegacy /\ [][NextLegacy]_vars

\* A message with an image element, from anybody.
LegacyImageMessageArrives ==
  \E m \in LegacyMessageSlots : \E userId \in Users : \E hasText \in BOOLEAN :
    \E image \in {"ok", "failed"} :
      /\ \A k \in 1..(m - 1) : legacyMessages[k].pc # "idle"
      /\ handleLegacyMessage(m, userId, NoUser, hasText, image)

\* The message events with and without images and the timers, with no upload.
NextLegacyImages ==
  \/ Tick
  \/ TimerFires
  \/ LegacyMessageArrives
  \/ LegacyImageMessageArrives
  \/ \E m \in LegacyMessageSlots : LegacyMessageStep(m)
  \/ \E m \in LegacyMessageSlots : LegacyImageStep(m)

SpecLegacyImages == InitLegacy /\ [][NextLegacyImages]_vars

\* setInterval keeps calling the sweep: it is not put off for ever while it
\* has something to delete.
SpecLegacyFair == SpecLegacy /\ WF_vars(CleanupInterval)

(***************************************************************************)
(* The timer-driven service over a long run.  Past MaxTime the clock keeps *)
(* advancing while something still waits for it: one unit at a time while  *)
(* the cache holds an entry inside the recency window, else to the time    *)
(* the next timer is due.  Every timer that is due fires, the interval of  *)
(* the sweep keeps coming, and every awaited read, write and download      *)
(* returns.                                                                *)
(***************************************************************************)
Unexpired(cache) ==
  \E i \in 1..Len(cache) : now - cache[i].timestamp <= UPLOADER_MESSAGE_WINDOW

Elapse ==
  /\ now >= MaxTime
  /\ IF Unexpired(whitelistMessageCache)
     THEN now' = now + 1
     ELSE /\ \E t \in timers : t.due > now
          /\ now' = CHOOSE d \in {t.due : t \in {x \in timers : x.due > now}} :
                       \A t \in timers : t.due > now => d <= t.due
  /\ UNCHANGED <<config, serviceVars, legacyVars, conversationVars, callVars>>

NextLegacyLive ==
  \/ Tick
  \/ Elapse
  \/ TimerFires
  \/ CleanupInterval
  \/ LegacyUploadArrives
  \/ LegacyDownloadFail
  \/ LegacyRegister
  \/ LegacyMessageArrives
  \/ \E m \in LegacyMessageSlots : LegacyMessageStep(m)

SpecLegacyLive ==
  /\ InitLegacy
  /\ [][NextLegacyLive]_vars
  /\ WF_vars(Tick \/ Elapse)
  /\ WF_vars(TimerFires)
  /\ WF_vars(CleanupInterval)
  /\ WF_vars(LegacyDownloadFail \/ LegacyRegister)
  /\ \A m \in LegacyMessageSlots : WF_vars(LegacyMessageStep(m))

(***************************************************************************)
(* The timer-driven service with the recordings "a" of u1 and "a(1)" of    *)
(* u2 and two messages of p1 in the cache, all of time 0.  Either no       *)
(* uploader has spoken and the two entries are linked to no record, or     *)
(* both uploaders have spoken (messages 9 and 10) before p1 did and the    *)
(* two entries are linked to both records.                                 *)
(***************************************************************************)
EarlierMessages == <<11, 12>>

InitFlush ==
  /\ config \in Configs
  /\ targetCall = IdleTargetCall
  /\ CollaboratorsConstructed
  /\ isUserWhitelisted("p1", config)
  /\ now = 0
  /\ fileIndex = [k \in FileKeys |-> NoRecord]
  /\ activeFiles = [c \in Channels |-> [u \in Users |-> NoSession]]
  /\ recordFiles = <<>>
  /\ assetFiles = {}
  /\ loadStatePending = FALSE
  /\ activeFilesKeys = {}
  /\ stateFile = SavedState
  /\ uploads = [h \in UploadSlots |-> IdleUpload]
  /\ messages = [m \in MessageSlots |-> IdleMessage]
  /\ ConversationConstructed
  /\ activeRecordings = {LegacyName(0), LegacyName(1)}
  /\ recordings = [n \in LegacyNames |->
        IF n = LegacyName(0) THEN Recording("u1", 1)
        ELSE IF n = LegacyName(1) THEN Recording("u2", 2)
        ELSE NoRecording]
  /\ channelActiveSet = <<LegacyName(0), LegacyName(1)>>
  /\ timers = {Timer(1, "timeout", LegacyName(0), RECORDING_DURATION),
               Timer(2, "timeout", LegacyName(1), RECORDING_DURATION)}
  /\ timerSeq = 2
  /\ \E spoken \in BOOLEAN :
       LET linked == IF spoken THEN <<LegacyName(0), LegacyName(1)>> ELSE <<>>
       IN /\ recentUploaderMessages = [n \in LegacyNames |->
                IF spoken /\ n # LegacyName(2) THEN 0 ELSE NoTime]
          /\ legacyRecords = [n \in LegacyNames |->
                IF n = LegacyName(0)
                  THEN LegacyFile(IF spoken THEN <<MessageRecord(9, "u1", FALSE)>> ELSE <<>>)
                ELSE IF n = LegacyName(1)
                  THEN LegacyFile(IF spoken THEN <<MessageRecord(10, "u2", FALSE)>> ELSE <<>>)
                ELSE NoLegacyFile]
          /\ whitelistMessageCache =
                [i \in 1..Len(EarlierMessages) |->
                   CacheEntry(EarlierMessages[i],
                              MessageRecord(EarlierMessages[i], "p1", FALSE), 0, linked)]
  /\ legacyUpload = IdleLegacyUpload
  /\ legacyMessages = [m \in LegacyMessageSlots |-> IdleLegacyMessage]

\* The message events and the sweep, with no upload.
NextFlush ==
  \/ Tick
  \/ CleanupInterval
  \/ LegacyMessageArrives
  \/ \E m \in LegacyMessageSlots : LegacyMessageStep(m)

SpecFlush == InitFlush /\ [][NextFlush]_vars

(***************************************************************************)
(* The FileRecordService that keeps one active file per user               *)
(* (services/FileRecordService.ts).  The messages it is offered are text   *)
(* with at most one mention and no quote and no image, so                  *)
(* _findTargetRecordInfos and _buildMessageContent do not suspend.  The    *)
(* code that follows an await up to the next one is one step with the      *)
(* completion of the await.  The downloaded files and the state file,      *)
(* which is read at construction only, are not part of the state.          *)
(***************************************************************************)
RECURSIVE updateConversationTimestamp(_, _, _)
\* this.channelConversations.get(channelId).set(uploaderId, Date.now()): a
\* key that is there keeps its place
updateConversationTimestamp(entries, uploaderId, t) ==
  IF entries = <<>> THEN <<Conversation(uploaderId, t)>>
  ELSE IF Head(entries).uploaderId = uploaderId
       THEN <<Conversation(uploaderId, t)>> \o Tail(entries)
       ELSE <<Head(entries)>> \o updateConversationTimestamp(Tail(entries), uploaderId, t)

\* the entries cleanupStaleConversations leaves in the table of a room
StaleRemoved(entries, t) ==
  SelectSeq(entries, LAMBDA e : ~(t - e.timestamp >= CONVERSATION_TIMEOUT))

\* setInterval(() => this.cleanupStaleConversations(), 60 * 1000)
cleanupStaleConversations ==
  /\ \E c \in Channels : StaleRemoved(channelConversations[c], now) # channelConversations[c]
  /\ channelConversations' =
        [c \in Channels |-> StaleRemoved(channelConversations[c], now)]
  /\ UNCHANGED <<conversationIndex, userActiveFile, conversationRecords, conversationUploads, conversationMessages>>
  /\ UNCHANGED <<config, now, serviceVars, legacyVars, callVars>>

\* _getActiveConversations(channelId)
getActiveConversations(conversations, channelId, t) ==
  SelectSeq(conversations[channelId], LAMBDA e : t - e.timestamp < CONVERSATION_TIMEOUT)

\* _findTargetRecordInfos of this service, for a message without a quote
conversationTargetRecordInfos(active, conversations, cfg, channelId, currentUserId, explicitTargetId, t) ==
  IF explicitTargetId # NoUser
  THEN LET recordId == active[explicitTargetId]
       IN IF recordId # NoRecord
             /\ (isUserWhitelisted(currentUserId, cfg) \/ currentUserId = explicitTargetId)
          THEN <<TargetInfo(recordId, explicitTargetId)>>
          ELSE <<>>
  ELSE IF active[currentUserId] # NoRecord
  THEN <<TargetInfo(active[currentUserId], currentUserId)>>
  ELSE IF isUserWhitelisted(currentUserId, cfg)
  THEN LET activeConversations == getActiveConversations(conversations, channelId, t)
           mapped == [i \in 1..Len(activeConversations) |->
                        TargetInfo(active[activeConversations[i].uploaderId],
                                   activeConversations[i].uploaderId)]
       IN SelectSeq(mapped, LAMBDA target : target.recordId # NoRecord)
  ELSE <<>>

\* handleFile up to its first await (session.onebot.getMsg)
ConversationHandleFile(h, channelId, userId, file, infoOk) ==
  /\ conversationUploads[h].pc = "idle"
  /\ (IF h = 1 THEN TRUE ELSE conversationUploads[h - 1].pc # "idle")
  /\ LET up == [IdleConversationUpload EXCEPT !.channelId = channelId, !.userId = userId]
     IN conversationUploads' = [conversationUploads EXCEPT ![h] =
          IF ~isFileRecordAllowed(channelId) THEN ConversationUploadReturned("notAllowed")
          ELSE [up EXCEPT !.pc = "getMsg", !.fileName = file.name,
                          !.fileSize = file.size, !.infoOk = infoOk]]
  /\ UNCHANGED <<conversationIndex, userActiveFile, channelConversations,
                 conversationRecords, conversationMessages>>
  /\ UNCHANGED <<config, now, serviceVars, legacyVars, callVars>>

\* createNewRecord up to its first await
ConversationStartCreate(up) ==
  [up EXCEPT !.pc = "createCheck", !.recordId = up.fileName, !.count = 1]

\* getMsg has returned or thrown: the file information is checked and
\* _processAndRecordFile runs up to its first await
ConversationGetMsg(h) ==
  /\ conversationUploads[h].pc = "getMsg"
  /\ LET up == conversationUploads[h]
         recordId == conversationIndex[FileKey(up.fileName, up.fileSize)]
     IN conversationUploads' = [conversationUploads EXCEPT ![h] =
          IF ~up.infoOk THEN ConversationUploadReturned("noInfo")
          ELSE IF up.fileSize > MaxFileSize \/ ~hasAllowedExtension(up.fileName)
            THEN ConversationUploadReturned("rejected")
          ELSE IF recordId # NoRecord
            THEN [up EXCEPT !.pc = "reuseCheck", !.recordId = recordId]
          ELSE ConversationStartCreate(up)]
  /\ UNCHANGED <<conversationIndex, userActiveFile, channelConversations,
                 conversationRecords, conversationMessages>>
  /\ UNCHANGED <<config, now, serviceVars, legacyVars, callVars>>

\* recordId && await this.fileManager.fileExists(...): the record is reused
\* or a new one is created
ConversationReuseCheck(h) ==
  /\ conversationUploads[h].pc = "reuseCheck"
  /\ LET up == conversationUploads[h]
     IN IF up.recordId \in DOMAIN conversationRecords
        THEN /\ userActiveFile' = [userActiveFile EXCEPT ![up.userId] = up.recordId]
             /\ conversationUploads' = [conversationUploads EXCEPT ![h] =
                   IF userActiveFile[up.userId] # up.recordId
                   THEN [up EXCEPT !.pc = "saveReuse"]
                   ELSE ConversationUploadKept(up, "reused")]
        ELSE /\ conversationUploads' =
                   [conversationUploads EXCEPT ![h] = ConversationStartCreate(up)]
             /\ UNCHANGED userActiveFile
  /\ UNCHANGED <<conversationIndex, channelConversations, conversationRecords, conversationMessages>>
  /\ UNCHANGED <<config, now, serviceVars, legacyVars, callVars>>

\* createNewRecord: one turn of while (await this.fileExists(...))
ConversationCreateCheck(h) ==
  /\ conversationUploads[h].pc = "createCheck"
  /\ LET up == conversationUploads[h]
     IN conversationUploads' = [conversationUploads EXCEPT ![h] =
          IF up.recordId \in DOMAIN conversationRecords
          THEN [up EXCEPT !.recordId = Disambiguated(up.fileName, up.count),
                          !.count = up.count + 1]
          ELSE [up EXCEPT !.pc = "createWrite"]]
  /\ UNCHANGED <<conversationIndex, userActiveFile, channelConversations,
                 conversationRecords, conversationMessages>>
  /\ UNCHANGED <<config, now, serviceVars, legacyVars, callVars>>

\* createNewRecord writes the record file and returns: the index and the
\* active file of the uploader are written
ConversationCreateWrite(h) ==
  /\ conversationUploads[h].pc = "createWrite"
  /\ LET up == conversationUploads[h]
     IN /\ conversationRecords' = WriteFile(conversationRecords, up.recordId,
                                           InitialRecord(up.recordId, up.userId))
        /\ conversationIndex' =
              [conversationIndex EXCEPT ![FileKey(up.fileName, up.fileSize)] = up.recordId]
        /\ userActiveFile' = [userActiveFile EXCEPT ![up.userId] = up.recordId]
  /\ conversationUploads' = [conversationUploads EXCEPT ![h].pc = "saveCreate"]
  /\ UNCHANGED <<channelConversations, conversationMessages>>
  /\ UNCHANGED <<config, now, serviceVars, legacyVars, callVars>>

\* await this.saveState(), and what follows it: return, or the download
ConversationSaveState(h) ==
  /\ conversationUploads[h].pc \in {"saveReuse", "saveCreate", "saveRollback"}
  /\ conversationUploads' = [conversationUploads EXCEPT ![h] =
        IF @.pc = "saveReuse" THEN ConversationUploadKept(@, "reused")
        ELSE IF @.pc = "saveCreate" THEN [@ EXCEPT !.pc = "download"]
        ELSE ConversationUploadReturned("rolledBack")]
  /\ UNCHANGED <<conversationIndex, userActiveFile, channelConversations,
                 conversationRecords, conversationMessages>>
  /\ UNCHANGED <<config, now, serviceVars, legacyVars, callVars>>

\* await this.downloadFile(...) returns the result: handleFile returns
ConversationDownloadOk(h) ==
  /\ conversationUploads[h].pc = "download"
  /\ conversationUploads' = [conversationUploads EXCEPT ![h] =
        ConversationUploadKept(@, "recorded")]
  /\ UNCHANGED <<conversationIndex, userActiveFile, channelConversations,
                 conversationRecords, conversationMessages>>
  /\ UNCHANGED <<config, now, serviceVars, legacyVars, callVars>>

\* downloadFile returns null: the catch starts deleteRecordFile
ConversationDownloadFail(h) ==
  /\ conversationUploads[h].pc = "download"
  /\ conversationUploads' = [conversationUploads EXCEPT ![h].pc = "rollbackDelete"]
  /\ UNCHANGED <<conversationIndex, userActiveFile, channelConversations,
                 conversationRecords, conversationMessages>>
  /\ UNCHANGED <<config, now, serviceVars, legacyVars, callVars>>

\* the record file is unlinked; the index entry is deleted, and the active
\* file of the uploader if it is still this record
ConversationRollback(h) ==
  /\ conversationUploads[h].pc = "rollbackDelete"
  /\ LET up == conversationUploads[h]
     IN /\ conversationRecords' = deleteFile(conversationRecords, up.recordId)
        /\ conversationIndex' =
              [conversationIndex EXCEPT ![FileKey(up.fileName, up.fileSize)] = NoRecord]
        /\ userActiveFile' = IF userActiveFile[up.userId] = up.recordId
                             THEN [userActiveFile EXCEPT ![up.userId] = NoRecord]
                             ELSE userActiveFile
  /\ conversationUploads' = [conversationUploads EXCEPT ![h].pc = "saveRollback"]
  /\ UNCHANGED <<channelConversations, conversationMessages>>
  /\ UNCHANGED <<config, now, serviceVars, legacyVars, callVars>>

\* handleMessage up to its first await: the targets are looked up, the
\* content is built and the loop starts with the first addMessageToRecord
ConversationHandleMessage(m, channelId, userId, at, hasText) ==
  /\ conversationMessages[m].pc = "idle"
  /\ (IF m = 1 THEN TRUE ELSE conversationMessages[m - 1].pc # "idle")
  /\ LET targets == conversationTargetRecordInfos(userActiveFile, channelConversations,
                       config, channelId, userId, getTargetFromReplyOrMention(at, NoUser), now)
         msg == [IdleConversationMessage EXCEPT !.channelId = channelId, !.userId = userId]
     IN conversationMessages' = [conversationMessages EXCEPT ![m] =
          IF targets = <<>> THEN ConversationMessageReturned("noTarget")
          ELSE IF ~hasText THEN ConversationMessageReturned("noContent")
          ELSE [msg EXCEPT !.pc = "appendRead", !.targets = targets, !.idx = 1]]
  /\ UNCHANGED <<conversationIndex, userActiveFile, channelConversations,
                 conversationRecords, conversationUploads>>
  /\ UNCHANGED <<config, now, serviceVars, legacyVars, callVars>>

\* the loop body after addMessageToRecord: updateConversationTimestamp, and
\* the next target or the return
ConversationAdvance(m) ==
  LET msg == conversationMessages[m]
      target == msg.targets[msg.idx]
  IN /\ channelConversations' = [channelConversations EXCEPT ![msg.channelId] =
            updateConversationTimestamp(@, target.uploaderId, now)]
     /\ conversationMessages' = [conversationMessages EXCEPT ![m] =
            IF msg.idx < Len(msg.targets)
            THEN [msg EXCEPT !.pc = "appendRead", !.idx = msg.idx + 1,
                             !.record = InitialRecord(NoRecord, NoUser)]
            ELSE ConversationMessageReturned("done")]

\* addMessageToRecord: fs.readFile returns the record and the message is
\* pushed, or it throws and the catch logs
ConversationAppendRead(m) ==
  /\ conversationMessages[m].pc = "appendRead"
  /\ LET msg == conversationMessages[m]
         recordId == msg.targets[msg.idx].recordId
         content == IF Len(msg.targets) > 1 THEN AMBIGUOUS_MESSAGE_PREFIX ELSE ""
     IN IF recordId \in DOMAIN conversationRecords
        THEN /\ conversationMessages' = [conversationMessages EXCEPT ![m].pc = "appendWrite",
                   ![m].record = [conversationRecords[recordId] EXCEPT !.messages =
                       Append(@, [content |-> content, userId |-> msg.userId])]]
             /\ UNCHANGED channelConversations
        ELSE ConversationAdvance(m)
  /\ UNCHANGED <<conversationIndex, userActiveFile, conversationRecords, conversationUploads>>
  /\ UNCHANGED <<config, now, serviceVars, legacyVars, callVars>>

\* addMessageToRecord: fs.writeFile writes the record file
ConversationAppendWrite(m) ==
  /\ conversationMessages[m].pc = "appendWrite"
  /\ LET msg == conversationMessages[m]
     IN conversationRecords' = WriteFile(conversationRecords,
                                         msg.targets[msg.idx].recordId, msg.record)
  /\ ConversationAdvance(m)
  /\ UNCHANGED <<conversationIndex, userActiveFile, conversationUploads>>
  /\ UNCHANGED <<config, now, serviceVars, legacyVars, callVars>>

ConversationUploadStep(h) ==
  \/ ConversationGetMsg(h)
  \/ ConversationReuseCheck(h)
  \/ ConversationCreateCheck(h)
  \/ ConversationCreateWrite(h)
  \/ ConversationSaveState(h)
  \/ ConversationDownloadOk(h)
  \/ ConversationDownloadFail(h)
  \/ ConversationRollback(h)

ConversationMessageStep(m) ==
  \/ ConversationAppendRead(m)
  \/ ConversationAppendWrite(m)

\* The events offered: a valid file or one with a disallowed extension, in
\* an eligible room or in another one.
ConversationFiles == {f \in FileInputs : f.size = 100}

ConversationUploadArrives ==
  \E h \in ConversationUploadSlots : \E channelId \in UploadRooms, userId \in Uploaders,
     file \in ConversationFiles, infoOk \in BOOLEAN :
        /\ (h = 1 => userId = "u1")
        /\ ConversationHandleFile(h, channelId, userId, file, infoOk)

ConversationMessageArrives ==
  \E m \in ConversationMessageSlots : \E channelId \in MessageRooms, userId \in Users,
     at \in {NoUser, "u1"}, hasText \in BOOLEAN :
        /\ (at # NoUser => hasText)
        /\ ConversationHandleMessage(m, channelId, userId, at, hasText)

\* The clock of this service.
ConversationTick ==
  /\ now < ConversationMaxTime
  /\ now' = now + 1
  /\ UNCHANGED <<config, serviceVars, legacyVars, conversationVars, callVars>>

NextConversation ==
  \/ ConversationTick
  \/ cleanupStaleConversations
  \/ ConversationUploadArrives
  \/ \E h \in ConversationUploadSlots : ConversationUploadStep(h)
  \/ ConversationMessageArrives
  \/ \E m \in ConversationMessageSlots : ConversationMessageStep(m)

\* The service after its construction and loadState(): there is no state
\* file, or the state file and the record are those an earlier run left
\* after u2's a.zip was recorded.  The table of conversations is kept in
\* memory only.
InitConversation ==
  /\ config \in Configs
  /\ targetCall = IdleTargetCall
  /\ CollaboratorsConstructed
  /\ now = 0
  /\ fileIndex = [k \in FileKeys |-> NoRecord]
  /\ activeFiles = [c \in Channels |-> [u \in Users |-> NoSession]]
  /\ recordFiles = <<>>
  /\ assetFiles = {}
  /\ loadStatePending = FALSE
  /\ activeFilesKeys = {}
  /\ stateFile = SavedState
  /\ uploads = [h \in UploadSlots |-> IdleUpload]
  /\ messages = [m \in MessageSlots |-> IdleMessage]
  /\ LegacyConstructed
  /\ channelConversations = [c \in Channels |-> <<>>]
  /\ conversationUploads = [h \in ConversationUploadSlots |-> IdleConversationUpload]
  /\ conversationMessages = [m \in ConversationMessageSlots |-> IdleConversationMessage]
  /\ \E earlier \in BOOLEAN :
       LET name == Name("a", <<>>, ".zip")
           none == [k \in FileKeys |-> NoRecord]
       IN IF earlier
          THEN /\ conversationIndex = [none EXCEPT ![FileKey(name, 100)] = name]
               /\ userActiveFile = [u \in Users |-> IF u = "u2" THEN name ELSE NoRecord]
               /\ conversationRecords = WriteFile(<<>>, name, InitialRecord(name, "u2"))
          ELSE /\ conversationIndex = none
               /\ userActiveFile = [u \in Users |-> NoRecord]
               /\ conversationRecords = <<>>

SpecConversation == InitConversation /\ [][NextConversation]_vars

(***************************************************************************)
(* _getTargetFromReplyOrMention, applied to the sessions of a bounded set. *)
(***************************************************************************)

MaxElements == 2

Elements == {TextElement, At("u1"), At("u2"), AtAll}

ElementLists ==
  UNION { [1..n -> Elements] : n \in 0..MaxElements }

Quotes == {NoQuote} \cup { Quote(u) : u \in {"u1", "u2", "p1", NoUser} }

\* session.elements.find(el => el.type === 'at'): the first 'at' element.
RECURSIVE findAt(_)
findAt(elements) ==
  IF elements = <<>> THEN NoElement
  ELSE IF Head(elements).type = "at" THEN Head(elements)
  ELSE findAt(Tail(elements))

\*   session.elements.find(at)?.attrs?.id ?? message?.quote?.user?.id ?? null
targetOfSession(elements, quote) ==
  LET mention == findAt(elements)
  IN IF mention.id # NoUser THEN mention.id
     ELSE IF quote.present /\ quote.user # NoUser THEN quote.user
     ELSE NoUser

\*   if (mention?.attrs?.id) return mention.attrs.id
\*   if (quote?.user?.id) return quote.user.id
\*   return null
conversationTargetOfSession(elements, quote) ==
  LET mention == findAt(elements)
  IN IF mention.type = "at" /\ mention.id # NoUser THEN mention.id
     ELSE IF quote.present /\ quote.user # NoUser THEN quote.user
     ELSE NoUser

GetTarget ==
  /\ targetCall.pc = "called"
  /\ targetCall' = [targetCall EXCEPT
       !.pc = "returned",
       !.result = targetOfSession(targetCall.elements, targetCall.quote)]
  /\ UNCHANGED <<config, now, serviceVars, legacyVars, conversationVars, collaboratorVars>>

ConversationGetTarget ==
  /\ targetCall.pc = "called"
  /\ targetCall' = [targetCall EXCEPT
       !.pc = "conversationReturned",
       !.result = conversationTargetOfSession(targetCall.elements, targetCall.quote)]
  /\ UNCHANGED <<config, now, serviceVars, legacyVars, conversationVars, collaboratorVars>>

NextTarget == GetTarget \/ ConversationGetTarget

InitTarget ==
  /\ config \in Configs
  /\ now = 0
  /\ fileIndex = [k \in FileKeys |-> NoRecord]
  /\ activeFiles = [c \in Channels |-> [u \in Users |-> NoSession]]
  /\ recordFiles = <<>>
  /\ assetFiles = {}
  /\ loadStatePending = FALSE
  /\ activeFilesKeys = {}
  /\ stateFile = SavedState
  /\ uploads = [h \in UploadSlots |-> IdleUpload]
  /\ messages = [m \in MessageSlots |-> IdleMessage]
  /\ ConversationConstructed
  /\ LegacyConstructed
  /\ CollaboratorsConstructed
  /\ \E elements \in ElementLists, quote \in Quotes :
       targetCall = [pc |-> "called", elements |-> elements, quote |-> quote,
                     result |-> NoUser]

SpecTarget == InitTarget /\ [][NextTarget]_vars

(***************************************************************************)
(* FileReplyService behind the message listener.  The listener awaits the  *)
(* file record service before it hands the message to handleMessage, so   *)
(* a message is handled some time after it has arrived.  handleMessage     *)
(* runs to its end in one turn when preventDup is set; else it waits for   *)
(* session.send.  The clock counts seconds.                                *)
(***************************************************************************)
getLauncherByChannel(channelId) ==
  IF channelId \in LAUNCHER_CONFIGS.hmcl.groups THEN "hmcl"
  ELSE IF channelId \in LAUNCHER_CONFIGS.pcl.groups THEN "pcl"
  ELSE IF channelId \in LAUNCHER_CONFIGS.bakaxl.groups THEN "bakaxl"
  ELSE NoLauncher

\* handleLauncherFile up to "if (messageToSend)": is there a nudge to send
messageToSend(channelId, currentGroupLauncher, matchedFileLauncher) ==
  IF channelId = MULTI_LAUNCHER_GROUP_ID THEN FALSE
  ELSE IF currentGroupLauncher = matchedFileLauncher
    THEN channelId # LAUNCHER_CONFIGS[currentGroupLauncher].groupId
  ELSE TRUE

\* clearTimeout(timer)
clearNudge(set, id) == {t \in set : t.id # id}

\* checkCancelDelay(content, channelId) on the map and the timers given
checkCancelDelay(map, set, content, channelId) ==
  IF map[channelId] # NoNudge /\ content = "groupId"
  THEN [pending |-> [map EXCEPT ![channelId] = NoNudge],
        timers |-> clearNudge(set, map[channelId])]
  ELSE [pending |-> map, timers |-> set]

\* ctx.on('message', ...): the listener starts and awaits the file record
\* service.  The slot notes the nudges of the room that are scheduled and
\* whose delay has not elapsed.
ReplyMessageArrives ==
  \E k \in ReplySlots, channelId \in ReplyChannels,
     matched \in {NoLauncher, "pcl"}, content \in Contents :
    /\ replyMessages[k].pc = "idle"
    /\ (IF k = 1 THEN TRUE ELSE replyMessages[k - 1].pc # "idle")
    /\ replyMessages' = [replyMessages EXCEPT ![k] =
         [pc |-> "listener", channelId |-> channelId, matched |-> matched,
          content |-> content,
          open |-> {t.id : t \in {x \in nudgeTimers :
                                    x.channelId = channelId /\ now < x.due}}]]
    /\ UNCHANGED <<preventDup, pendingNudge, nudgeTimers, nudgeSends, nudgeSent, nudgeSeq>>
    /\ UNCHANGED <<now, replyFrame>>

\* the handler has read what it needs of the session
ReplyReturned(msg, pc) ==
  [msg EXCEPT !.pc = pc, !.channelId = "", !.matched = NoLauncher]

\* FileReplyService.handleMessage
FileReplyHandleMessage(k) ==
  LET msg == replyMessages[k]
      channelId == msg.channelId
      launcher == getLauncherByChannel(channelId)
      nudge == /\ launcher # NoLauncher
               /\ msg.matched # NoLauncher
               /\ messageToSend(channelId, launcher, msg.matched)
      scheduled == clearNudge(nudgeTimers, pendingNudge[channelId])
                     \cup {Nudge(nudgeSeq + 1, channelId, now + NUDGE_DELAY)}
      map == IF nudge THEN [pendingNudge EXCEPT ![channelId] = nudgeSeq + 1]
             ELSE pendingNudge
      set == IF nudge THEN scheduled ELSE nudgeTimers
      checked == IF launcher # NoLauncher /\ msg.content # "empty"
                 THEN checkCancelDelay(map, set, msg.content, channelId)
                 ELSE [pending |-> map, timers |-> set]
  IN /\ msg.pc = "listener"
     /\ IF preventDup
        THEN /\ pendingNudge' = checked.pending
             /\ nudgeTimers' = checked.timers
             /\ nudgeSeq' = IF nudge THEN nudgeSeq + 1 ELSE nudgeSeq
             /\ replyMessages' = [replyMessages EXCEPT ![k] = ReplyReturned(msg, "done")]
        ELSE /\ replyMessages' = [replyMessages EXCEPT ![k] =
                  ReplyReturned(msg, IF nudge THEN "send" ELSE "done")]
             /\ UNCHANGED <<pendingNudge, nudgeTimers, nudgeSeq>>
     /\ UNCHANGED <<preventDup, nudgeSends, nudgeSent>>
     /\ UNCHANGED <<now, replyFrame>>

\* await session.send(...) of the direct nudge returns or throws
DirectSendReturns(k) ==
  /\ replyMessages[k].pc = "send"
  /\ replyMessages' = [replyMessages EXCEPT ![k].pc = "sent"]
  /\ UNCHANGED <<preventDup, pendingNudge, nudgeTimers, nudgeSends, nudgeSent, nudgeSeq>>
  /\ UNCHANGED <<now, replyFrame>>

\* the delay of a timer has elapsed: its callback calls session.send
NudgeTimerFires ==
  \E t \in nudgeTimers :
    /\ now >= t.due
    /\ nudgeTimers' = nudgeTimers \ {t}
    /\ nudgeSends' = nudgeSends \cup {t}
    /\ nudgeSent' = nudgeSent \cup {t.id}
    /\ UNCHANGED <<preventDup, pendingNudge, nudgeSeq, replyMessages>>
    /\ UNCHANGED <<now, replyFrame>>

\* session.send returns and the callback deletes the entry of the room
NudgeSendReturns ==
  \E t \in nudgeSends :
    /\ nudgeSends' = nudgeSends \ {t}
    /\ pendingNudge' = [pendingNudge EXCEPT ![t.channelId] = NoNudge]
    /\ UNCHANGED <<preventDup, nudgeTimers, nudgeSent, nudgeSeq, replyMessages>>
    /\ UNCHANGED <<now, replyFrame>>

\* session.send throws: the callback ends before its delete
NudgeSendThrows ==
  \E t \in nudgeSends :
    /\ nudgeSends' = nudgeSends \ {t}
    /\ UNCHANGED <<preventDup, pendingNudge, nudgeTimers, nudgeSent, nudgeSeq, replyMessages>>
    /\ UNCHANGED <<now, replyFrame>>

Second ==
  /\ now < MaxSeconds
  /\ now' = now + 1
  /\ UNCHANGED <<replyVars, replyFrame>>

InitReply ==
  /\ config \in Configs
  /\ targetCall = IdleTargetCall
  /\ now = 0
  /\ fileIndex = [k \in FileKeys |-> NoRecord]
  /\ activeFiles = [c \in Channels |-> [u \in Users |-> NoSession]]
  /\ recordFiles = <<>>
  /\ assetFiles = {}
  /\ loadStatePending = FALSE
  /\ activeFilesKeys = {}
  /\ stateFile = SavedState
  /\ uploads = [h \in UploadSlots |-> IdleUpload]
  /\ messages = [m \in MessageSlots |-> IdleMessage]
  /\ ConversationConstructed
  /\ LegacyConstructed
  /\ preventDup \in BOOLEAN
  /\ pendingNudge = [c \in ReplyChannels |-> NoNudge]
  /\ nudgeTimers = {}
  /\ nudgeSends = {}
  /\ nudgeSent = {}
  /\ nudgeSeq = 0
  /\ replyMessages = [k \in ReplySlots |-> IdleReplyMessage]
  /\ CurfewConstructed
  /\ KeywordsConstructed

NextReply ==
  \/ Second
  \/ ReplyMessageArrives
  \/ \E k \in ReplySlots : FileReplyHandleMessage(k)
  \/ \E k \in ReplySlots : DirectSendReturns(k)
  \/ NudgeTimerFires
  \/ NudgeSendReturns
  \/ NudgeSendThrows

SpecReply == InitReply /\ [][NextReply]_vars

(***************************************************************************)
(* CurfewService.  The clock counts hours.  scheduleNextEvent and          *)
(* onCurfewStart call each other synchronously; a frame of                 *)
(* scheduleNextEvent that has called onCurfewStart stays on the stack      *)
(* until that call returns, and the stack has room for MaxStack such       *)
(* frames: one more throws a RangeError, which nothing catches.  Timers    *)
(* and promise continuations run only when the stack is empty.             *)
(***************************************************************************)
parseCurfewTime(str) ==
  IF Len(str) # 2 THEN NoTimes
  ELSE IF str[1] < 0 \/ str[1] >= HoursPerDay \/ str[2] < 0 \/ str[2] >= HoursPerDay
    THEN NoTimes
  ELSE [start |-> str[1], end |-> str[2]]

\* now.getHours() + now.getMinutes() / 60, at whole hours
currentHour == now % HoursPerDay

isCurrentlyInCurfew(times) ==
  IF times.start > times.end
  THEN currentHour >= times.start \/ currentHour < times.end
  ELSE currentHour >= times.start /\ currentHour < times.end

\* getTargetDate(decimalHour), moved to the next day if it is not after now
nextEventTime(decimalHour) ==
  LET today == (now - currentHour) + decimalHour
  IN IF today <= now THEN today + HoursPerDay ELSE today

\* checkWhitelistActivityAndMute up to its first await: with no group muted
\* and the privileged participants inactive, setGroupMute(groupId, true) is
\* called and waits for the bot
checkWhitelistActivityAndMute(inactive) ==
  muteCalls' = IF ~isCurfewMuted /\ inactive /\ muteCalls < MaxMuteCalls
               THEN muteCalls + 1 ELSE muteCalls

StackIdle == curfewCall.pc \in {"idle", "returned", "overflow"}

Returning(frames) == IF frames = <<>> THEN "returned" ELSE "unwind"

\* scheduleNextEvent from its first line to the call of onCurfewStart, or,
\* outside the curfew, to its end.  A frame that calls onCurfewStart keeps
\* the delay it has computed.
ScheduleNextEvent ==
  LET times == parseCurfewTime(curfewTime)
      cleared == {t \in mainTimers : t.id # mainScheduler}
      frames == curfewCall.frames
  IN /\ curfewCall.pc = "called"
     /\ IF times = NoTimes
        THEN /\ mainTimers' = cleared
             /\ curfewCall' = [curfewCall EXCEPT !.pc = Returning(frames)]
             /\ UNCHANGED <<mainScheduler, curfewSeq>>
        ELSE IF isCurrentlyInCurfew(times)
        THEN /\ mainTimers' = cleared
             /\ curfewCall' = IF Len(frames) >= MaxStack
                              THEN [pc |-> "overflow", frames |-> <<>>]
                              ELSE [pc |-> "onCurfewStart",
                                    frames |-> Append(frames, nextEventTime(times.end) - now)]
             /\ UNCHANGED <<mainScheduler, curfewSeq>>
        ELSE /\ mainTimers' = cleared \cup
                  {MainTimer(curfewSeq + 1, "onCurfewStart", nextEventTime(times.start))}
             /\ mainScheduler' = curfewSeq + 1
             /\ curfewSeq' = curfewSeq + 1
             /\ curfewCall' = [curfewCall EXCEPT !.pc = Returning(frames)]
     /\ UNCHANGED <<curfewTime, curfewCheckTimer, checkIntervals, isCurfewMuted, muteCalls>>
     /\ UNCHANGED <<now, curfewFrame>>

\* onCurfewStart up to its call of scheduleNextEvent
OnCurfewStart ==
  /\ curfewCall.pc = "onCurfewStart"
  /\ \E inactive \in BOOLEAN : checkWhitelistActivityAndMute(inactive)
  /\ checkIntervals' = checkIntervals \cup {curfewSeq + 1}
  /\ curfewCheckTimer' = curfewSeq + 1
  /\ curfewSeq' = curfewSeq + 1
  /\ curfewCall' = [curfewCall EXCEPT !.pc = "called"]
  /\ UNCHANGED <<curfewTime, mainScheduler, mainTimers, isCurfewMuted>>
  /\ UNCHANGED <<now, curfewFrame>>

\* onCurfewStart has returned to the frame of scheduleNextEvent that called
\* it: this.mainScheduler = setTimeout(nextAction, delay)
Unwind ==
  LET frames == curfewCall.frames
      delay == frames[Len(frames)]
      rest == SubSeq(frames, 1, Len(frames) - 1)
  IN /\ curfewCall.pc = "unwind"
     /\ mainTimers' = mainTimers \cup {MainTimer(curfewSeq + 1, "onCurfewEnd", now + delay)}
     /\ mainScheduler' = curfewSeq + 1
     /\ curfewSeq' = curfewSeq + 1
     /\ curfewCall' = [pc |-> Returning(rest), frames |-> rest]
     /\ UNCHANGED <<curfewTime, curfewCheckTimer, checkIntervals, isCurfewMuted, muteCalls>>
     /\ UNCHANGED <<now, curfewFrame>>

\* the callback of the main scheduler: onCurfewStart, or onCurfewEnd up to
\* its first await or, with no group muted, to its call of scheduleNextEvent
MainTimerFires ==
  \E t \in mainTimers :
    /\ StackIdle
    /\ now >= t.due
    /\ mainTimers' = mainTimers \ {t}
    /\ IF t.action = "onCurfewStart"
       THEN /\ curfewCall' = [pc |-> "onCurfewStart", frames |-> <<>>]
            /\ UNCHANGED checkIntervals
       ELSE /\ checkIntervals' = checkIntervals \ {curfewCheckTimer}
            /\ curfewCall' = [pc |-> IF isCurfewMuted THEN "unmute" ELSE "called",
                              frames |-> <<>>]
    /\ UNCHANGED <<curfewTime, mainScheduler, curfewCheckTimer, curfewSeq,
                   isCurfewMuted, muteCalls>>
    /\ UNCHANGED <<now, curfewFrame>>

\* await this.setGroupMute(groupId, false) of onCurfewEnd returns, the ban
\* lifted or not, and onCurfewEnd calls scheduleNextEvent
UnmuteReturns ==
  /\ curfewCall.pc = "unmute"
  /\ isCurfewMuted' \in BOOLEAN
  /\ curfewCall' = [curfewCall EXCEPT !.pc = "called"]
  /\ UNCHANGED <<curfewTime, mainScheduler, mainTimers, curfewCheckTimer,
                 checkIntervals, curfewSeq, muteCalls>>
  /\ UNCHANGED <<now, curfewFrame>>

\* the callback of a running interval; the step is taken when it starts a
\* call of setGroupMute
CheckIntervalFires ==
  /\ StackIdle
  /\ checkIntervals # {}
  /\ checkWhitelistActivityAndMute(TRUE)
  /\ muteCalls' # muteCalls
  /\ UNCHANGED <<curfewTime, mainScheduler, mainTimers, curfewCheckTimer,
                 checkIntervals, curfewSeq, isCurfewMuted, curfewCall>>
  /\ UNCHANGED <<now, curfewFrame>>

\* await setGroupWholeBan(+groupId, true) returns or throws
MuteReturns ==
  /\ StackIdle \/ curfewCall.pc = "unmute"
  /\ muteCalls > 0
  /\ muteCalls' = muteCalls - 1
  /\ isCurfewMuted' \in BOOLEAN
  /\ UNCHANGED <<curfewTime, mainScheduler, mainTimers, curfewCheckTimer,
                 checkIntervals, curfewSeq, curfewCall>>
  /\ UNCHANGED <<now, curfewFrame>>

\* An hour passes; a timeout that is due has fired before the next one does.
Hour ==
  /\ now < MaxHours
  /\ \A t \in mainTimers : t.due > now
  /\ now' = now + 1
  /\ UNCHANGED <<curfewVars, curfewFrame>>

\* The constructor with a curfew configured: it has called scheduleNextEvent
\* unless the configured time does not parse.
InitCurfew ==
  /\ config \in Configs
  /\ targetCall = IdleTargetCall
  /\ now \in 0..(HoursPerDay - 1)
  /\ fileIndex = [k \in FileKeys |-> NoRecord]
  /\ activeFiles = [c \in Channels |-> [u \in Users |-> NoSession]]
  /\ recordFiles = <<>>
  /\ assetFiles = {}
  /\ loadStatePending = FALSE
  /\ activeFilesKeys = {}
  /\ stateFile = SavedState
  /\ uploads = [h \in UploadSlots |-> IdleUpload]
  /\ messages = [m \in MessageSlots |-> IdleMessage]
  /\ ConversationConstructed
  /\ LegacyConstructed
  /\ ReplyConstructed
  /\ KeywordsConstructed
  /\ curfewTime \in CurfewTimes
  /\ mainScheduler = NoNudge
  /\ mainTimers = {}
  /\ curfewCheckTimer = NoNudge
  /\ checkIntervals = {}
  /\ curfewSeq = 0
  /\ isCurfewMuted = FALSE
  /\ muteCalls = 0
  /\ curfewCall = [pc |-> IF parseCurfewTime(curfewTime) = NoTimes THEN "idle" ELSE "called",
                   frames |-> <<>>]

CurfewStep == ScheduleNextEvent \/ OnCurfewStart \/ Unwind

NextCurfew ==
  \/ Hour
  \/ ScheduleNextEvent
  \/ OnCurfewStart
  \/ Unwind
  \/ MainTimerFires
  \/ UnmuteReturns
  \/ CheckIntervalFires
  \/ MuteReturns

SpecCurfew == InitCurfew /\ [][NextCurfew]_vars

\* The call chain is synchronous: it runs to its end.
SpecCurfewFair == SpecCurfew /\ WF_vars(CurfewStep)

(***************************************************************************)
(* The keyword commands.  A command handler runs until it waits for the    *)
(* disk or the network; the waits that matter to the lists are the         *)
(* download of the images of a new reply (processReply) and the renaming   *)
(* of the image files of a keyword (renameKeyword).  With no image the     *)
(* check and the change of the list happen in one turn.                    *)
(***************************************************************************)
Texts(list) == [i \in 1..Len(list) |-> list[i].text]

Has(texts, text) == \E i \in 1..Len(texts) : texts[i] = text

\* this.keywords.splice(index, 1) with index the first position of the text
Spliced(list, texts, text) ==
  LET index == CHOOSE i \in 1..Len(texts) :
                 texts[i] = text /\ \A j \in 1..(i - 1) : texts[j] # text
  IN SubSeq(list, 1, index - 1) \o SubSeq(list, index + 1, Len(list))

\* this.keywords.find(kw => kw.text === text)
FindKeyword(text) ==
  keywords[CHOOSE i \in 1..Len(keywords) :
             keywords[i].text = text /\ \A j \in 1..(i - 1) : keywords[j].text # text]

\* keyword.text = newText, on the object the handler holds
Renamed(list, id, newText) ==
  [i \in 1..Len(list) |-> IF list[i].id = id THEN [list[i] EXCEPT !.text = newText]
                          ELSE list[i]]

KeywordCalled(k) ==
  /\ keywordCalls[k].pc = "idle"
  /\ (IF k = 1 THEN TRUE ELSE keywordCalls[k - 1].pc # "idle")

KeywordReturn(k, pc) ==
  keywordCalls' = [keywordCalls EXCEPT ![k] = [IdleKeywordCall EXCEPT !.pc = pc]]

\* addKeyword up to await this.processReply(...), or, with no image to
\* download, up to await this.saveKeywords()
AddKeyword(k, text, image) ==
  /\ KeywordCalled(k)
  /\ IF Has(Texts(keywords), text)
     THEN /\ KeywordReturn(k, "exists")
          /\ UNCHANGED <<keywords, keywordSeq>>
     ELSE IF image
     THEN /\ keywordCalls' = [keywordCalls EXCEPT ![k] =
               [IdleKeywordCall EXCEPT !.pc = "processReply", !.text = text]]
          /\ UNCHANGED <<keywords, keywordSeq>>
     ELSE /\ keywords' = Append(keywords, Keyword(keywordSeq + 1, text, FALSE))
          /\ keywordSeq' = keywordSeq + 1
          /\ KeywordReturn(k, "save")
  /\ UNCHANGED fwdKeywords
  /\ UNCHANGED keywordFrame

\* the downloads of processReply return, with the image stored or not, and
\* the new keyword is pushed
ProcessReplyReturns(k) ==
  /\ keywordCalls[k].pc = "processReply"
  /\ \E stored \in BOOLEAN :
       keywords' = Append(keywords, Keyword(keywordSeq + 1, keywordCalls[k].text, stored))
  /\ keywordSeq' = keywordSeq + 1
  /\ KeywordReturn(k, "save")
  /\ UNCHANGED fwdKeywords
  /\ UNCHANGED keywordFrame

\* removeKeyword up to await this.saveKeywords()
RemoveKeyword(k, text) ==
  /\ KeywordCalled(k)
  /\ IF ~Has(Texts(keywords), text)
     THEN /\ KeywordReturn(k, "notFound")
          /\ UNCHANGED keywords
     ELSE /\ keywords' = Spliced(keywords, Texts(keywords), text)
          /\ KeywordReturn(k, "save")
  /\ UNCHANGED <<keywordSeq, fwdKeywords>>
  /\ UNCHANGED keywordFrame

\* renameKeyword up to its first await: the renaming of an image file, or,
\* for a keyword without local image, saveKeywords
RenameKeyword(k, oldText, newText) ==
  /\ KeywordCalled(k)
  /\ IF oldText = newText THEN /\ KeywordReturn(k, "same")
                               /\ UNCHANGED keywords
     ELSE IF ~Has(Texts(keywords), oldText) THEN /\ KeywordReturn(k, "notFound")
                                                 /\ UNCHANGED keywords
     ELSE IF Has(Texts(keywords), newText) THEN /\ KeywordReturn(k, "exists")
                                                /\ UNCHANGED keywords
     ELSE IF FindKeyword(oldText).image
     THEN /\ keywordCalls' = [keywordCalls EXCEPT ![k] =
               [IdleKeywordCall EXCEPT !.pc = "renameFiles", !.newText = newText,
                                       !.id = FindKeyword(oldText).id]]
          /\ UNCHANGED keywords
     ELSE /\ keywords' = Renamed(keywords, FindKeyword(oldText).id, newText)
          /\ KeywordReturn(k, "save")
  /\ UNCHANGED <<keywordSeq, fwdKeywords>>
  /\ UNCHANGED keywordFrame

\* the image files are renamed, or not: keyword.text = newText
RenameFilesReturns(k) ==
  /\ keywordCalls[k].pc = "renameFiles"
  /\ keywords' = Renamed(keywords, keywordCalls[k].id, keywordCalls[k].newText)
  /\ KeywordReturn(k, "save")
  /\ UNCHANGED <<keywordSeq, fwdKeywords>>
  /\ UNCHANGED keywordFrame

\* await this.saveKeywords() or this.saveFwdKeywords() returns, and with it
\* the command
SaveKeywordsReturns(k) ==
  /\ keywordCalls[k].pc = "save"
  /\ KeywordReturn(k, "done")
  /\ UNCHANGED <<keywords, keywordSeq, fwdKeywords>>
  /\ UNCHANGED keywordFrame

FwdEntry(text) == [text |-> text]

\* addFwdKeyword up to await this.saveFwdKeywords()
AddFwdKeyword(k, text) ==
  /\ KeywordCalled(k)
  /\ IF Has(Texts(fwdKeywords), text)
     THEN /\ KeywordReturn(k, "exists")
          /\ UNCHANGED fwdKeywords
     ELSE /\ fwdKeywords' = Append(fwdKeywords, FwdEntry(text))
          /\ KeywordReturn(k, "save")
  /\ UNCHANGED <<keywords, keywordSeq>>
  /\ UNCHANGED keywordFrame

\* removeFwdKeyword up to await this.saveFwdKeywords()
RemoveFwdKeyword(k, text) ==
  /\ KeywordCalled(k)
  /\ IF ~Has(Texts(fwdKeywords), text)
     THEN /\ KeywordReturn(k, "notFound")
          /\ UNCHANGED fwdKeywords
     ELSE /\ fwdKeywords' = Spliced(fwdKeywords, Texts(fwdKeywords), text)
          /\ KeywordReturn(k, "save")
  /\ UNCHANGED <<keywords, keywordSeq>>
  /\ UNCHANGED keywordFrame

\* renameFwdKeyword up to await this.saveFwdKeywords()
RenameFwdKeyword(k, oldText, newText) ==
  /\ KeywordCalled(k)
  /\ IF oldText = newText THEN /\ KeywordReturn(k, "same")
                               /\ UNCHANGED fwdKeywords
     ELSE IF ~Has(Texts(fwdKeywords), oldText) THEN /\ KeywordReturn(k, "notFound")
                                                    /\ UNCHANGED fwdKeywords
     ELSE IF Has(Texts(fwdKeywords), newText) THEN /\ KeywordReturn(k, "exists")
                                                   /\ UNCHANGED fwdKeywords
     ELSE /\ fwdKeywords' =
               [i \in 1..Len(fwdKeywords) |->
                  IF i = (CHOOSE j \in 1..Len(fwdKeywords) : fwdKeywords[j].text = oldText)
                  THEN FwdEntry(newText) ELSE fwdKeywords[i]]
          /\ KeywordReturn(k, "save")
  /\ UNCHANGED <<keywords, keywordSeq>>
  /\ UNCHANGED keywordFrame

KeywordCommand ==
  \E k \in KeywordSlots, text \in KeywordTexts, newText \in KeywordTexts :
     \/ \E image \in BOOLEAN : AddKeyword(k, text, image)
     \/ RemoveKeyword(k, text)
     \/ RenameKeyword(k, text, newText)

FwdKeywordCommand ==
  \E k \in KeywordSlots, text \in KeywordTexts, newText \in KeywordTexts :
     \/ AddFwdKeyword(k, text)
     \/ RemoveFwdKeyword(k, text)
     \/ RenameFwdKeyword(k, text, newText)

\* The two services with their lists loaded: no keyword, or the keyword
\* "x", whose reply holds a local image.
InitKeywords ==
  /\ config \in Configs
  /\ targetCall = IdleTargetCall
  /\ now = 0
  /\ fileIndex = [k \in FileKeys |-> NoRecord]
  /\ activeFiles = [c \in Channels |-> [u \in Users |-> NoSession]]
  /\ recordFiles = <<>>
  /\ assetFiles = {}
  /\ loadStatePending = FALSE
  /\ activeFilesKeys = {}
  /\ stateFile = SavedState
  /\ uploads = [h \in UploadSlots |-> IdleUpload]
  /\ messages = [m \in MessageSlots |-> IdleMessage]
  /\ ConversationConstructed
  /\ LegacyConstructed
  /\ ReplyConstructed
  /\ CurfewConstructed
  /\ \E loaded \in BOOLEAN :
       /\ keywords = IF loaded THEN <<Keyword(1, "x", TRUE)>> ELSE <<>>
       /\ keywordSeq = IF loaded THEN 1 ELSE 0
       /\ fwdKeywords = IF loaded THEN <<FwdEntry("x")>> ELSE <<>>
  /\ keywordCalls = [k \in KeywordSlots |-> IdleKeywordCall]

NextKeywords ==
  \/ KeywordCommand
  \/ FwdKeywordCommand
  \/ \E k \in KeywordSlots : ProcessReplyReturns(k)
  \/ \E k \in KeywordSlots : RenameFilesReturns(k)
  \/ \E k \in KeywordSlots : SaveKeywordsReturns(k)

SpecKeywords == InitKeywords /\ [][NextKeywords]_vars

(***************************************************************************)
(* Properties of handleFile.                                               *)
(***************************************************************************)
Registers(h) == uploads[h].pc = "register" /\ uploads'[h].pc = "saveCreate"
Reuses(h) == uploads[h].pc = "reuseCont" /\ uploads'[h].pc = "saveReuse"
RollsBack(h) == uploads[h].pc = "rollbackCont" /\ uploads'[h].pc = "rollbackSave"
UploadKey(h) == FileKey(uploads[h].fileName, uploads[h].fileSize)
\* the pairs (room, participant) whose session points at recordId
SessionsAt(af, recordId) ==
  { p \in Channels \X Users : af[p[1]][p[2]].recordId = recordId }

C2_FirstUploadCreatesOneRecord ==
  [][\A h \in UploadSlots :
        LET up == uploads[h]
        IN up.exists = "undefined" =>
            /\ (up.pc = "createWrite" /\ uploads'[h].pc = "register") =>
                  /\ ~fileExists(up.recordId)
                  /\ Cardinality(DOMAIN recordFiles') = Cardinality(DOMAIN recordFiles) + 1
            /\ Registers(h) =>
                  /\ fileExists(up.recordId)
                  /\ recordFiles[up.recordId] = InitialRecord(up.recordId, up.userId)
                  /\ SessionsAt(activeFiles', up.recordId) = {<<up.channelId, up.userId>>}
    ]_vars

\* C3: a re-upload whose fingerprint is indexed and whose record file exists
\* reuses that record: when the handler resumes, the uploader's session
\* points at the record that was found, no record file is created, no
\* download is started and the index is unchanged.
C3_ReuploadReusesRecord ==
  [][\A h \in UploadSlots :
        LET up == uploads[h]
        IN (up.pc = "reuseCont" /\ up.exists = "true" /\ uploads'[h] # up) =>
            /\ uploads'[h].pc = "saveReuse"
            /\ activeFiles'[up.channelId][up.userId].recordId = up.recordId
            /\ recordFiles' = recordFiles
            /\ assetFiles' = assetFiles
            /\ fileIndex' = fileIndex
    ]_vars

\* C4: when the rollback of a failed download resumes after the deletion of
\* the record file, the index has no entry for the upload's fingerprint and
\* no session points at the upload's record.
C4_RollbackLeavesNothing ==
  [][\A h \in UploadSlots :
        RollsBack(h) =>
            /\ fileIndex'[UploadKey(h)] = NoRecord
            /\ SessionsAt(activeFiles', uploads[h].recordId) = {}
    ]_vars

(***************************************************************************)
(* Properties of handleMessage.                                            *)
(***************************************************************************)
MsgArrives(m) == messages[m].pc = "idle" /\ messages'[m].pc # "idle"
MsgReads(m) == messages[m].pc = "addLoad" /\ messages'[m].pc \in {"addWrite", "refresh"}
MsgWrites(m) == messages[m].pc = "addWrite" /\ messages'[m].pc = "refresh"
MsgRefreshes(m) == messages[m].pc = "refresh" /\ messages'[m].pc # "refresh"
MsgCompletes(m) == messages[m].pc \in {"refresh", "saveState"} /\ messages'[m].pc = "done"
Privileged(userId) == isUserWhitelisted(userId, config)
\* the session of (c, u) exists and its lastActivity is within limit of now
InWindow(c, u, limit) ==
  /\ activeFiles[c][u] # NoSession
  /\ now - activeFiles[c][u].timestamp <= limit
SessionTarget(c, u) == [recordId |-> activeFiles[c][u].recordId, uploaderId |-> u]
Attributed(msg) == { msg.targets[i] : i \in 1..Len(msg.targets) }
\* the event has some text that is not blank, or an image
HasContent(msg) == msg.content.text \/ msg.image # "none"
\* the step writes the record file recordId with the entry of m as its last
\* message, and no other record file
AppendsEntry(m, recordId) ==
  /\ DOMAIN recordFiles' = DOMAIN recordFiles \cup {recordId}
  /\ \A r \in DOMAIN recordFiles \ {recordId} : recordFiles'[r] = recordFiles[r]
  /\ LET ms == recordFiles'[recordId].messages
     IN /\ Len(ms) > 0
        /\ ms[Len(ms)] = [content |-> messages[m].content, userId |-> messages[m].userId]
ExplicitByPrivileged(msg) == Privileged(msg.userId) /\ msg.explicit # NoUser
BroadcastByPrivileged(msg) == Privileged(msg.userId) /\ msg.explicit = NoUser

RecentUploaders(c) == { u \in Users : InWindow(c, u, config.recordTimeout) }

C10_ExpiredSessionEvicted ==
  [][/\ \A c \in Channels, u \in Users :
          activeFiles[c][u] # NoSession =>
             now - activeFiles[c][u].timestamp <= config.conversationTimeout
     /\ \A m \in MessageSlots :
          (MsgArrives(m) /\ ExplicitByPrivileged(messages'[m])
             /\ ~InWindow(messages'[m].channelId, messages'[m].explicit,
                          config.conversationTimeout)) =>
                messages'[m].targets = <<>>
    ]_vars

(***************************************************************************)
(* Properties of the whitelist message cache and of the timers             *)
(* (the timer-driven service).                                             *)
(***************************************************************************)
\* handler m takes up a message in this step
LegacyArrives(m) ==
  legacyMessages[m].pc = "idle" /\ legacyMessages'[m].pc # "idle"

\* userId holds no recording in the room
HoldsNone(userId) ==
  \A f \in activeRecordings : recordings[f].uploaderUserId # userId

\* a message of a privileged participant who is no uploader, with no mention
PrivilegedBroadcast(msg) ==
  /\ isUserWhitelisted(msg.userId, config)
  /\ HoldsNone(msg.userId)
  /\ msg.at = NoUser

RecentlyActive == {f \in activeRecordings : isFileUploaderRecentlyActive(f)}

CacheKeys(cache) == {cache[i].key : i \in 1..Len(cache)}

CacheEntryOf(cache, key) ==
  cache[CHOOSE i \in 1..Len(cache) : cache[i].key = key]

\* the messages of the record of f that came out of the cache or from a
\* handler: their ids, in file order
RecordIds(f) == [i \in 1..Len(legacyRecords[f].messages) |-> legacyRecords[f].messages[i].id]

\* C11 as stated (its first half): a privileged message with no explicit
\* target that arrives when no recording of the room is recently active is
\* in the cache, linked to no record, when its handler returns.
C11_ZeroMatchesAreCached ==
  [][\A m \in LegacyMessageSlots :
       (LegacyArrives(m) /\ PrivilegedBroadcast(legacyMessages'[m]) /\ RecentlyActive = {}) =>
          /\ m \in CacheKeys(whitelistMessageCache')
          /\ CacheEntryOf(whitelistMessageCache', m).relatedFiles = <<>>
    ]_vars

\* handler m completes the write of an entry of its flush list in this step
FlushWrites(m) ==
  legacyMessages[m].pc = "flushWrite" /\ legacyMessages'[m].pc # "flushWrite"

FlushedEntry(m) == legacyMessages[m].list[legacyMessages[m].idx]

\* the ids of the messages that went through the cache
CachedIds ==
  {EarlierMessages[i] : i \in 1..Len(EarlierMessages)}
    \cup {m \in LegacyMessageSlots : legacyMessages[m].pc = "cached"}

\* The messages of EarlierMessages arrived in their order, before those the
\* handlers take up, which arrive in the order of the slots.
ArrivedBefore(id1, id2) ==
  LET early(id) == \E i \in 1..Len(EarlierMessages) : EarlierMessages[i] = id
  IN IF early(id1) = early(id2) THEN id1 < id2 ELSE early(id1)

\* the flushed messages of a record stand in the order of their arrival
InArrivalOrder(msgs) ==
  \A i, j \in 1..Len(msgs) :
     (i < j /\ msgs[i].id \in CachedIds /\ msgs[j].id \in CachedIds) =>
        ~ArrivedBefore(msgs[j].id, msgs[i].id)

\* the write of a flushed entry takes the record out of the entry's links,
\* and the entry out of the cache exactly when no link is left
RemovedWhenWritten(m) ==
  LET entry == FlushedEntry(m)
      fileName == legacyMessages[m].fileName
  IN entry.key \in CacheKeys(whitelistMessageCache) =>
       LET left == Without(CacheEntryOf(whitelistMessageCache, entry.key).relatedFiles,
                           fileName)
       IN IF left = <<>>
          THEN entry.key \notin CacheKeys(whitelistMessageCache')
          ELSE /\ entry.key \in CacheKeys(whitelistMessageCache')
               /\ CacheEntryOf(whitelistMessageCache', entry.key).relatedFiles = left

\* C12 as stated: in every record the messages that were flushed from the
\* cache stand in the order of their arrival, and a flushed entry leaves
\* the cache when it has been written to all the records it was linked to.
C12_FlushedInArrivalOrder ==
  /\ [](\A f \in LegacyNames : InArrivalOrder(legacyRecords[f].messages))
  /\ [][\A m \in LegacyMessageSlots : FlushWrites(m) => RemovedWhenWritten(m)]_vars

Expired(c) == now - c.timestamp > UPLOADER_MESSAGE_WINDOW

\* a flush in progress has the entry still to write
InFlushList(key) ==
  \E m \in LegacyMessageSlots : \E i \in 1..Len(legacyMessages[m].list) :
     i >= legacyMessages[m].idx /\ legacyMessages[m].list[i].key = key

\* this step writes the message id into a record
WritesMessage(id) ==
  \E f \in LegacyNames :
     /\ legacyRecords'[f] # legacyRecords[f]
     /\ legacyRecords'[f].messages # <<>>
     /\ legacyRecords'[f].messages[Len(legacyRecords'[f].messages)].id = id

\* the entries that have outlived the recency window with no link
StaleKeys ==
  {whitelistMessageCache[i].key : i \in
     {j \in 1..Len(whitelistMessageCache) :
        /\ whitelistMessageCache[j].relatedFiles = <<>>
        /\ Expired(whitelistMessageCache[j])
        /\ ~InFlushList(whitelistMessageCache[j].key)}}

\* the cached messages that are in the cache no more
GoneKeys ==
  {m \in LegacyMessageSlots :
     /\ legacyMessages[m].pc = "cached"
     /\ m \notin CacheKeys(whitelistMessageCache)
     /\ ~InFlushList(m)}

\* A step keeps what has outlived the recency window with no link from
\* being linked or written, the sweep discards every such entry, and an
\* entry that has left the cache never comes back and is never written.
StaleStaysOut ==
  /\ \A key \in StaleKeys :
       /\ key \in CacheKeys(whitelistMessageCache') =>
             CacheEntryOf(whitelistMessageCache', key).relatedFiles = <<>>
       /\ ~InFlushList(key)'
       /\ ~WritesMessage(key)
  /\ CleanupInterval =>
       \A i \in 1..Len(whitelistMessageCache') :
          ~(whitelistMessageCache'[i].relatedFiles = <<>>
              /\ Expired(whitelistMessageCache'[i]))
  /\ \A key \in GoneKeys :
       /\ key \notin CacheKeys(whitelistMessageCache')
       /\ ~InFlushList(key)'
       /\ ~WritesMessage(key)

\* C13: an entry that has outlived the recency window with no link leaves
\* the cache, and from the moment it has outlived the window it is never
\* linked to a record and never written into one.
C13_UnlinkedExpiredIsDiscarded ==
  /\ \A key \in LegacyMessageSlots :
       (key \in StaleKeys) ~> (key \notin CacheKeys(whitelistMessageCache))
  /\ [][StaleStaysOut]_vars

\* p1's message 1 was cached, outlived the window and was discarded; u1
\* has spoken since, and no record holds the message
C13_Witness ==
  /\ legacyMessages[1].pc = "cached"
  /\ legacyMessages[2].pc = "done"
  /\ legacyMessages[2].userId = "u1"
  /\ LegacyName(0) \in activeRecordings
  /\ recentUploaderMessages[LegacyName(0)] >= 2
  /\ 1 \notin CacheKeys(whitelistMessageCache)
  /\ \A f \in LegacyNames :
        \A i \in 1..Len(legacyRecords[f].messages) : legacyRecords[f].messages[i].id # 1

TimersOf(f, kind) == {t \in timers : t.fileName = f /\ t.kind = kind}

\* at most one timer of each kind is outstanding for a recording, and it is
\* the one the recording object holds
OneTimerPerKind ==
  \A f \in LegacyNames :
     /\ Cardinality(TimersOf(f, "timeout")) <= 1
     /\ Cardinality(TimersOf(f, "whitelistTimeout")) <= 1
     /\ \A t \in TimersOf(f, "timeout") : t.id = recordings[f].timeout
     /\ \A t \in TimersOf(f, "whitelistTimeout") : t.id = recordings[f].whitelistTimeout

\* the callback of the privileged-reply timer t ends its recording in this step
ReplyTimerRetires(t) ==
  /\ TimerFires
  /\ t \in timers /\ t \notin timers'
  /\ t.kind = "whitelistTimeout"
  /\ now >= t.due
  /\ t.fileName \in activeRecordings /\ t.fileName \notin activeRecordings'

ScheduledAt(t) == t.due - WHITELIST_REPLY_TIMEOUT

\* the handler of a direct reply to the uploader of f is under way
PendingReply(m, f) ==
  /\ legacyMessages[m].pc \in {"replyLoad", "replyWrite"}
  /\ legacyMessages[m].fileName = f

\* no privileged-reply timer ends a recording that a privileged participant
\* has engaged again after the timer was scheduled and before it was due
NoStaleReplyTimer ==
  \A t \in timers :
     ReplyTimerRetires(t) =>
        ~\E m \in LegacyMessageSlots :
            /\ PendingReply(m, t.fileName)
            /\ legacyMessages[m].timestamp > ScheduledAt(t)
            /\ legacyMessages[m].timestamp < t.due

\* C14 as stated: at most one timer of each kind is outstanding for a
\* Session, and no callback scheduled before a refresh of the Session ends
\* the Session after that refresh.
C14_NoStaleTimerAfterRefresh ==
  /\ []OneTimerPerKind
  /\ [][NoStaleReplyTimer]_vars

\* the handler of a message of the uploader of f, one that is recorded, is
\* under way
PendingUploaderMessage(m, f) ==
  /\ legacyMessages[m].pc \in {"textLoad", "textWrite", "flushLoad", "flushWrite"}
  /\ legacyMessages[m].fileName = f
  /\ legacyMessages[m].userId = recordings[f].uploaderUserId

\* the uploader of the recording of timer t has spoken after the timer was
\* scheduled and before it was due
UploaderSpokeSince(t) ==
  \E m \in LegacyMessageSlots :
     /\ PendingUploaderMessage(m, t.fileName)
     /\ legacyMessages[m].timestamp > ScheduledAt(t)
     /\ legacyMessages[m].timestamp < t.due

\* C15 as stated: when the privileged-reply timer of a Session fires the
\* Session is retired, and it fires on a Session only if the uploader has
\* not spoken since the engagement that scheduled it.
C15_RetiredIffUploaderSilent ==
  [][\A t \in timers :
       (TimerFires /\ t \notin timers' /\ t.kind = "whitelistTimeout" /\ now >= t.due) =>
          /\ t.fileName \notin activeRecordings'
          /\ t.fileName \in activeRecordings => ~UploaderSpokeSince(t)
    ]_vars

(***************************************************************************)
(* Properties of concurrent uploads, of failures and of ignored events.    *)
(***************************************************************************)
\* the upload of slot h has created a record of its own and kept it
CreatedRecord(h) == uploads[h].pc \in {"saveCreate", "download", "recorded"}
DifferentPairs(h1, h2) ==
  <<uploads[h1].channelId, uploads[h1].userId>> #
     <<uploads[h2].channelId, uploads[h2].userId>>

\* C16 as stated: uploads of different pairs (room, participant) do not
\* conflict.  Handled one after the other, two uploads that each created a
\* record hold different records, each record names its own uploader, and
\* the index gives different records to different fingerprints; the same
\* is required however the handlers interleave.
C16_UploadsOfDifferentPairsIndependent ==
  /\ \A k1, k2 \in FileKeys :
        (k1 # k2 /\ fileIndex[k1] # NoRecord /\ fileIndex[k2] # NoRecord) =>
           fileIndex[k1] # fileIndex[k2]
  /\ \A h1, h2 \in UploadSlots :
        (h1 # h2 /\ DifferentPairs(h1, h2) /\ CreatedRecord(h1) /\ CreatedRecord(h2)) =>
           /\ uploads[h1].recordId # uploads[h2].recordId
           /\ fileExists(uploads[h1].recordId)
           /\ recordFiles[uploads[h1].recordId].uploaderId = uploads[h1].userId

\* The message listener wraps the whole pipeline in one try: when
\* handleFile rejects, handleMessage and the collaborators called after it
\* (fileReplyService, forwardingService, keywordReplyService) are skipped
\* for the event and the catch logs a warning.
ListenerCatches(h) == uploads[h].pc = "threw"

\* C17 as stated: no failure inside the file-record service propagates out
\* of it while an event is handled: handleFile never rejects, so the
\* listener always goes on to the collaborators registered after it.
C17_NoFailureLeavesFileRecord ==
  \A h \in UploadSlots : ~ListenerCatches(h)

\* a write of the record file of m's current target fails in this step
WriteFails(m) ==
  /\ messages[m].pc = "addWrite"
  /\ messages'[m] # messages[m]
  /\ messages'[m].written = messages[m].written

\* C18: a write error while a message is appended to a record is swallowed:
\* the append returns to the loop of the message handler, the record file
\* and the list of targets are as they were, and the handler goes on with
\* the target that follows, if there is one, and else finishes.
C18_WriteErrorIsSwallowed ==
  [][\A m \in MessageSlots :
        LET msg == messages[m]
        IN /\ WriteFails(m) =>
                /\ messages'[m].pc = "refresh"
                /\ messages'[m].targets = msg.targets
                /\ messages'[m].idx = msg.idx
                /\ recordFiles' = recordFiles
           /\ (MsgRefreshes(m) /\ msg.failed # <<>>) =>
                IF msg.idx < Len(msg.targets)
                THEN messages'[m].pc = "addLoad" /\ messages'[m].idx = msg.idx + 1
                ELSE messages'[m].pc \in {"saveState", "done"}
    ]_vars

\* A privileged message went to two records; the write of the first
\* failed, the second was written and the handler has finished.
C18_Witness ==
  \E m \in MessageSlots :
     LET msg == messages[m]
     IN /\ msg.pc = "done"
        /\ Len(msg.targets) = 2
        /\ msg.failed = <<msg.targets[1].recordId>>
        /\ msg.written = <<msg.targets[2].recordId>>
        /\ recordFiles[msg.targets[2].recordId].messages # <<>>

\* the file of the upload is over the size ceiling or its extension is not
\* one of the allowed ones
Invalid(up) == up.fileSize > MaxFileSize \/ up.fileName.ext \notin ALLOWED_EXTENSIONS
\* the handler of slot h takes the step, and its event came with file
\* information from a room where recording is allowed
ValidatedStep(h) ==
  /\ uploads'[h] # uploads[h]
  /\ uploads'[h].pc \notin {"idle", "notAllowed", "noInfo"}

\* C19: an upload whose file is over the size ceiling or has a disallowed
\* extension changes nothing: its handler returns at once, and no record
\* file, index entry, session (the uploader's existing one included),
\* downloaded file or saved state is written, created or removed by it.
C19_RejectedUploadChangesNothing ==
  [][\A h \in UploadSlots :
        (ValidatedStep(h) /\ Invalid(uploads'[h])) =>
            /\ uploads[h].pc = "idle"
            /\ uploads'[h].pc = "rejected"
            /\ recordFiles' = recordFiles
            /\ fileIndex' = fileIndex
            /\ activeFiles' = activeFiles
            /\ activeFilesKeys' = activeFilesKeys
            /\ assetFiles' = assetFiles
            /\ stateFile' = stateFile
    ]_vars

\* An uploader whose earlier upload is registered has sent a file that was
\* rejected, and the session is still the one of the earlier upload.
C19_Witness ==
  /\ uploads[1].pc \in {"download", "recorded"}
  /\ uploads[2].pc = "rejected"
  /\ Invalid(uploads[2])
  /\ uploads[2].channelId = uploads[1].channelId
  /\ uploads[2].userId = uploads[1].userId
  /\ activeFiles[uploads[1].channelId][uploads[1].userId] =
        ActiveSession(uploads[1].recordId, uploads[1].now)

\* the room is one of the rooms configured for recording
Eligible(channelId) == channelId \in FILE_RECORD_GROUPS \cup config.additionalGroups

\* C20 as stated: an upload or a message in a room that is not eligible for
\* recording creates no record and appends to none: no step of the handler
\* of such an event changes a record file, and an upload that arrives in
\* such a room is dropped at once.
C20_IneligibleRoomRecordsNothing ==
  [][/\ \A m \in ConversationMessageSlots :
          LET msg == conversationMessages[m]
          IN (msg.pc # "idle" /\ ~Eligible(msg.channelId)
                /\ conversationMessages'[m] # msg) =>
                conversationRecords' = conversationRecords
     /\ \A h \in ConversationUploadSlots :
          (conversationUploads[h].pc = "idle"
             /\ conversationUploads'[h].pc = "notAllowed") =>
                /\ conversationRecords' = conversationRecords
                /\ conversationIndex' = conversationIndex
                /\ userActiveFile' = userActiveFile
    ]_vars

(***************************************************************************)
(* Properties of the explicit target and of the content of a message.      *)
(***************************************************************************)

\* The participants a message mentions directly.
Mentioned(elements) ==
  { elements[i].id : i \in { j \in DOMAIN elements : elements[j].type = "at" } }
    \ {NoUser}

TargetReturned == targetCall.pc \in {"returned", "conversationReturned"}

\* C21: the explicit target of a message is the mentioned participant when
\* the message contains a direct mention, otherwise the author of the quoted
\* message when it quotes one, otherwise none; when both a mention and a
\* quote are present the mention is used.
C21_ExplicitTargetIsMentionThenQuote ==
  TargetReturned =>
    IF Mentioned(targetCall.elements) # {}
    THEN targetCall.result \in Mentioned(targetCall.elements)
    ELSE IF targetCall.quote.present /\ targetCall.quote.user # NoUser
    THEN targetCall.result = targetCall.quote.user
    ELSE targetCall.result = NoUser

\* `[图片下载失败: ${imgName}]` as a message of a record of FileManager
FailureToken(id, userId) ==
  [id |-> id, userId |-> userId, blank |-> FALSE, image |-> "failed"]

\* C22: when the download of an image of an attributed message fails, the
\* message is still appended to its target record, with a failure token in
\* place of that image: once the handler of an uploader's message with such
\* an image has returned, the record it wrote to holds the token.
C22_FailedImageLeavesFailureToken ==
  \A m \in LegacyMessageSlots :
     LET msg == legacyMessages[m]
         record == legacyRecords[msg.fileName]
     IN (msg.pc = "done" /\ msg.image = "failed" /\ msg.fileName # NoRecord) =>
           \E i \in DOMAIN record.messages :
              record.messages[i] = FailureToken(m, msg.userId)

(***************************************************************************)
(* Properties of the two windows under the default configuration.          *)
(***************************************************************************)

\* n minutes, in the unit of Date.now()
Minutes(n) == n * 60 * 1000

\* The session was last active less than the given number of minutes ago.
ActiveWithin(info, minutes) ==
  info # NoSession /\ now - info.timestamp < Minutes(minutes)

\* C23: conversationTimeout and recordTimeout are durations in minutes: in an
\* eligible room, a message of an uploader (with no explicit target or
\* itself as target) or a message of a privileged participant that names an
\* uploader finds the session if it was active less than conversationTimeout
\* minutes ago, and a message of a privileged participant with no explicit
\* target finds every session active less than recordTimeout minutes ago.
C23_TimeoutsAreMinutes ==
  \A m \in MessageSlots :
     messages[m].pc # "idle" /\ isFileRecordAllowed(messages[m].channelId) =>
       LET msg == messages[m]
           sessions == activeFiles[msg.channelId]
       IN IF isUserWhitelisted(msg.userId, config)
          THEN IF msg.explicit # NoUser
               THEN ActiveWithin(sessions[msg.explicit], config.conversationTimeout)
                      => msg.pc # "noTarget"
               ELSE (\E u \in Users : ActiveWithin(sessions[u], config.recordTimeout))
                      => msg.pc # "noTarget"
          ELSE (msg.explicit \in {NoUser, msg.userId}
                  /\ ActiveWithin(sessions[msg.userId], config.conversationTimeout))
                 => msg.pc # "noTarget"

(***************************************************************************)
(* Properties of the rollback and of the records behind sessions.          *)
(***************************************************************************)

SamePair(h1, h2) ==
  /\ uploads[h1].channelId = uploads[h2].channelId
  /\ uploads[h1].userId = uploads[h2].userId

\* the rollback of the failed download of slot h has removed what it removes
RolledBack(h) == uploads[h].pc \in {"rollbackSave", "rolledBack"}

\* the upload of slot h2 created its record and set the session while the
\* download of slot h1, of the same room and participant, was in progress
RegisteredDuring(h2, h1) ==
  /\ h1 # h2
  /\ SamePair(h1, h2)
  /\ CreatedRecord(h2)
  /\ h1 \in uploads[h2].pending

\* C24: when a participant registers a second upload in a room while the
\* download of the first is in progress and the first download then fails,
\* the rollback of the first leaves the session of the participant at the
\* record of the second upload, and leaves the index entry and the record
\* of the second upload in place.
C24_RollbackSparesLaterUpload ==
  \A h1, h2 \in UploadSlots :
     (RegisteredDuring(h2, h1) /\ RolledBack(h1)) =>
        LET up == uploads[h2]
        IN /\ activeFiles[up.channelId][up.userId].recordId = up.recordId
           /\ fileIndex[FileKey(up.fileName, up.fileSize)] = up.recordId
           /\ fileExists(up.recordId)

\* The record is backed on disk: its record file, or the file downloaded
\* for it, is there.
BackingArtifactPresent(recordId) ==
  fileExists(recordId) \/ recordId \in assetFiles

\* C25: there is no reachable state in which a session points at a record
\* whose backing artifact is not on disk.
C25_SessionHasBackingArtifact ==
  \A c \in Channels, u \in Users :
     activeFiles[c][u] # NoSession =>
        BackingArtifactPresent(activeFiles[c][u].recordId)

\* the handler of slot h resumes after the existence check, and goes on to
\* create a new record
TreatsAsStale(h) == uploads[h].pc = "reuseCont" /\ uploads'[h].pc = "createCheck"

\* C26: an index entry is reused for an upload only if the backing artifact
\* of the record it references still exists on disk; if it is absent the
\* upload creates a new record.
C26_ReuseOnlyIfBackingArtifact ==
  [][\A h \in UploadSlots :
       /\ Reuses(h) => BackingArtifactPresent(uploads[h].recordId)
       /\ (uploads[h].pc = "reuseCont" /\ uploads'[h] # uploads[h]
             /\ ~BackingArtifactPresent(uploads[h].recordId)) => TreatsAsStale(h)
    ]_vars

(***************************************************************************)
(* Properties of the message list of a record.                             *)
(***************************************************************************)

\* every entry of the list before is at its place in the list after
Extends(after, before) ==
  /\ Len(after) >= Len(before)
  /\ \A i \in 1..Len(before) : after[i] = before[i]

\* C27: the message list of a record is append-only: every entry that an
\* append has written to a record is still in that record in every later
\* state in which the record exists, also when two message handlers append
\* to the same record and their read-modify-write steps interleave.
C27_MessageListAppendOnly ==
  [][\A r \in (DOMAIN conversationRecords) \cap (DOMAIN conversationRecords') :
        Extends(conversationRecords'[r].messages, conversationRecords[r].messages)
    ]_vars

(***************************************************************************)
(* Properties of the rooms of sessions and messages.                       *)
(***************************************************************************)

\* the handler of slot m writes the record file of its current target
ConversationAppends(m) ==
  /\ conversationMessages[m].pc = "appendWrite"
  /\ conversationMessages'[m] # conversationMessages[m]

\* the upload of slot h gave the uploader the record as active file
OpenedBy(h, uploaderId, recordId) ==
  /\ conversationUploads[h].pc \in {"reused", "recorded"}
  /\ conversationUploads[h].userId = uploaderId
  /\ conversationUploads[h].recordId = recordId

\* C28: attribution is room-scoped: a message sent in room R is appended only
\* to records reached through a session of room R; when the upload that
\* gave the target uploader the record came in another room, the message is
\* not appended to the record.
C28_AttributionIsRoomScoped ==
  [][\A m \in ConversationMessageSlots :
       ConversationAppends(m) =>
         LET msg == conversationMessages[m]
             target == msg.targets[msg.idx]
         IN \A h \in ConversationUploadSlots :
               OpenedBy(h, target.uploaderId, target.recordId) =>
                  conversationUploads[h].channelId = msg.channelId
    ]_vars

\* no handler of an upload and no rollback is between two of its steps
NoUploadMidFlight ==
  \A h \in UploadSlots : uploads[h].pc \in UploadResolved \cup {"idle"}

\* C29: in every state in which no upload or rollback is mid-flight, each
\* session names a record whose record file exists; this includes the
\* session of a second participant who uploaded the same fingerprint again,
\* and so shares the record, while the download of the first participant
\* was pending, when that download then failed.
C29_SessionsNameExistingRecords ==
  NoUploadMidFlight =>
     \A c \in Channels, u \in Users :
        activeFiles[c][u] # NoSession => fileExists(activeFiles[c][u].recordId)

(***************************************************************************)
(* Properties of the number of copies of a message in a record.            *)
(***************************************************************************)

\* the handler of slot m writes its message into the record file of its
\* current target
AppendsTo(m, recordId) ==
  /\ messages[m].pc = "addWrite"
  /\ messages[m].targets[messages[m].idx].recordId = recordId
  /\ messages'[m].written = Append(messages[m].written, recordId)

\* C30: a single chat message is appended at most once to any given record,
\* also when two sessions of the room point at the same record after
\* another participant uploaded the same fingerprint again: the handler of a
\* message never writes the message into a record it has already written
\* it into.
C30_MessageAppendedAtMostOnce ==
  [][\A m \in MessageSlots : \A recordId \in DOMAIN recordFiles :
        AppendsTo(m, recordId) =>
           \A i \in DOMAIN messages[m].written : messages[m].written[i] # recordId
    ]_vars

(***************************************************************************)
(* Properties of the place of a flushed message in a record.               *)
(***************************************************************************)

\* the entry is the message of a handler of a participant who is not
\* privileged: the text of an uploader, written by processUploaderMessage
UploaderEntry(entry) ==
  entry.id \in LegacyMessageSlots /\ ~isUserWhitelisted(entry.userId, config)

\* C31: within one record the entries stand in the order in which the
\* messages arrived in the room: a cached privileged message that arrived
\* before the message of an uploader never stands behind that message of
\* the uploader in the record.
C31_CachedNeverBehindLaterUploader ==
  \A f \in LegacyNames :
     \A i, j \in 1..Len(legacyRecords[f].messages) :
        (/\ i < j
         /\ UploaderEntry(legacyRecords[f].messages[i])
         /\ legacyRecords[f].messages[j].id \in CachedIds)
          => ~ArrivedBefore(legacyRecords[f].messages[j].id,
                            legacyRecords[f].messages[i].id)

(***************************************************************************)
(* Properties of the tables across the load of the saved state.            *)
(***************************************************************************)

\* the loadState() that the constructor started resumes in this step
LoadCompletes == loadStatePending /\ ~loadStatePending'

\* C32: a session or an index entry that an upload registered while the
\* load of the saved state was still in progress is still in the tables
\* of the service when that load has completed.
C32_RegisteredDuringLoadSurvives ==
  [][LoadCompletes =>
       /\ \A c \in Channels, u \in Users :
             activeFiles[c][u] # NoSession => activeFiles'[c][u] = activeFiles[c][u]
       /\ \A k \in FileKeys :
             fileIndex[k] # NoRecord => fileIndex'[k] = fileIndex[k]
    ]_vars

(***************************************************************************)
(* Properties of the way out of the cache.                                 *)
(***************************************************************************)

\* C33: every entry placed in the cache is removed from it in the end, by
\* a flush or by being discarded, whether or not it was ever linked to a
\* recording and whether or not the uploader it is linked to speaks again.
C33_CacheEntryEventuallyRemoved ==
  \A key \in LegacyMessageSlots :
     (key \in CacheKeys(whitelistMessageCache))
        ~> (key \notin CacheKeys(whitelistMessageCache))

(***************************************************************************)
(* Properties of the whitelist lookup.                                     *)
(***************************************************************************)

\* the configured whitelist holds an entry with this userId
WhitelistNames(userId) == \E e \in config.whitelist : e.userId = userId

\* C34: the sender of a message is treated as privileged exactly when the
\* configured whitelist holds an entry whose userId is the sender's id.
C34_PrivilegedIffWhitelistEntry ==
  \A m \in MessageSlots :
     messages[m].pc # "idle" =>
        (isUserWhitelisted(messages[m].userId, config)
           <=> WhitelistNames(messages[m].userId))

(***************************************************************************)
(* Properties of the delayed nudge of FileReplyService.                    *)
(***************************************************************************)

\* the handler of slot k has a message that names the main group of a
\* launcher
NamesGroup(k) == replyMessages[k].pc # "idle" /\ replyMessages[k].content = "groupId"

\* C35: with preventDup set, when a message whose content contains the main
\* group id of a launcher arrives in a room after a nudge was scheduled
\* for the room and before the 3 seconds of its delay have elapsed, that
\* nudge is never sent.
C35_GroupIdCancelsNudge ==
  preventDup =>
     \A k \in ReplySlots :
        NamesGroup(k) => replyMessages[k].open \cap nudgeSent = {}

\* the timers outstanding for a room
NudgesOf(channelId) == {t \in nudgeTimers : t.channelId = channelId}

\* C36: for each room at most one nudge timer is outstanding at any time,
\* and whenever one is outstanding the pending map holds that timer for
\* the room, also when a new nudge is scheduled while the send of an
\* earlier nudge is still in progress.
C36_OneNudgeHeldInPending ==
  \A channelId \in ReplyChannels :
     /\ Cardinality(NudgesOf(channelId)) <= 1
     /\ \A t \in NudgesOf(channelId) : pendingNudge[channelId] = t.id

(***************************************************************************)
(* Properties of the scheduler of CurfewService.                           *)
(***************************************************************************)

\* the call chain that began with scheduleNextEvent or with a timer
\* callback returns in this step
CallReturns == curfewCall.pc # "returned" /\ curfewCall'.pc = "returned"

\* C37: every call of scheduleNextEvent returns after finitely many steps
\* and leaves exactly one timeout of the main scheduler outstanding and,
\* inside the curfew window, exactly one activity-check interval running,
\* in particular when it is called inside the curfew window.
C37_ScheduleReturnsWithOneTimer ==
  /\ (curfewCall.pc = "called") ~> (curfewCall.pc = "returned")
  /\ [][CallReturns =>
          /\ Cardinality(mainTimers') = 1
          /\ isCurrentlyInCurfew(parseCurfewTime(curfewTime)) =>
                Cardinality(checkIntervals') = 1
       ]_vars

(***************************************************************************)
(* Properties of the keyword lists.                                        *)
(***************************************************************************)

\* no text stands at two places of the list
Distinct(texts) ==
  \A i, j \in 1..Len(texts) : texts[i] = texts[j] => i = j

\* C38: after any sequence, in any interleaving, of the commands that add,
\* remove and rename keywords, no two keywords of a keyword list have the
\* same text.
C38_KeywordTextsDistinct ==
  Distinct(Texts(keywords)) /\ Distinct(Texts(fwdKeywords))

====
